---- MODULE Spec2Model ----
(***************************************************************************)
(* Pipeline orchestrator and job state machine of the YouTube Shorts       *)
(* automation (src/src/pipeline.py): PipelineJob, its persisted record,    *)
(* Pipeline.run / run_job / run_batch / retry_failed_jobs and the CLI      *)
(* commands that call them.  One process at a time works on the job store; *)
(* run_job is modelled statement by statement (pc) so that every record     *)
(* written to the store is a state of its own.                              *)
(***************************************************************************)
EXTENDS Integers, Sequences, FiniteSets, TLC

\* ------------------------------------------------------------------ bounds
MaxJobs == 2        \* jobs ever created in the store
MaxFailures == 3    \* exceptions raised by stages or cleanup, in total
MaxMessages == 2    \* messages of a generated story

\* --------------------------------------------------------------- JobStatus
\* class JobStatus(Enum): the members, by name.  The job object holds the
\* member, its record holds the member's value.
PENDING == "PENDING"
GENERATING_STORY == "GENERATING_STORY"
RENDERING_FRAMES == "RENDERING_FRAMES"
COMPOSING_VIDEO == "COMPOSING_VIDEO"
MIXING_AUDIO == "MIXING_AUDIO"
UPLOADING == "UPLOADING"
COMPLETED == "COMPLETED"
FAILED == "FAILED"

JobStatus ==
    {PENDING, GENERATING_STORY, RENDERING_FRAMES, COMPOSING_VIDEO,
     MIXING_AUDIO, UPLOADING, COMPLETED, FAILED}

\* member.value
value ==
    [PENDING |-> "pending", GENERATING_STORY |-> "generating_story",
     RENDERING_FRAMES |-> "rendering_frames",
     COMPOSING_VIDEO |-> "composing_video", MIXING_AUDIO |-> "mixing_audio",
     UPLOADING |-> "uploading", COMPLETED |-> "completed",
     FAILED |-> "failed"]

\* JobStatus(v): the member with that value; ValueError when the string is
\* the value of no member.
IsJobStatusValue(v) == \E m \in JobStatus : value[m] = v

JobStatusFromValue(v) == CHOOSE m \in JobStatus : value[m] = v

\* Optional[str] = None (theme, paths, youtube_id, error, timestamps)
None == "None"

\* Optional[Story] = None, and the null a record stores for it.
NoStory == [class |-> "NoneType"]

\* dict.get(key, default)
Get(d, key, default) == IF key \in DOMAIN d THEN d[key] ELSE default

\* Truth value of a dict or None: None and the empty dict are false.
Truthy(d) == d # NoStory /\ DOMAIN d # {}

\* --------------------------------------- generators/story_generator.py
\* @dataclass Message
Message(username, content, avatar_color, timestamp, reactions) ==
    [class |-> "Message", username |-> username, content |-> content,
     avatar_color |-> avatar_color, timestamp |-> timestamp,
     reactions |-> reactions]

\* @dataclass Story
Story(title, th, messages, description, tags) ==
    [class |-> "Story", title |-> title, theme |-> th, messages |-> messages,
     description |-> description, tags |-> tags]

\* Story.to_dict: a dict of the five fields, each message a dict.
story_to_dict(st) ==
    [title |-> st.title, theme |-> st.theme, description |-> st.description,
     tags |-> st.tags,
     messages |-> [k \in 1 .. Len(st.messages) |->
                      [username |-> st.messages[k].username,
                       content |-> st.messages[k].content,
                       avatar_color |-> st.messages[k].avatar_color,
                       timestamp |-> st.messages[k].timestamp,
                       reactions |-> st.messages[k].reactions]]]

\* Story.from_dict raises KeyError unless title, theme and messages are
\* there and every message has username, content and avatar_color.
story_loads(d) ==
    /\ {"title", "theme", "messages"} \subseteq DOMAIN d
    /\ \A k \in 1 .. Len(d.messages) :
          {"username", "content", "avatar_color"} \subseteq DOMAIN d.messages[k]

\* Story.from_dict had it left every message's reactions at the default.
story_from_dict_reactions_dropped(d) ==
    Story(d.title, d.theme,
          [k \in 1 .. Len(d.messages) |->
              Message(d.messages[k].username, d.messages[k].content,
                      d.messages[k].avatar_color,
                      Get(d.messages[k], "timestamp", None), <<>>)],
          Get(d, "description", ""), Get(d, "tags", <<>>))

\* Story.from_dict
story_from_dict(d) ==
    Story(d.title, d.theme,
          [k \in 1 .. Len(d.messages) |->
              Message(d.messages[k].username, d.messages[k].content,
                      d.messages[k].avatar_color,
                      Get(d.messages[k], "timestamp", None),
                      Get(d.messages[k], "reactions", <<>>))],
          Get(d, "description", ""), Get(d, "tags", <<>>))

ThemeLists == {<<>>, <<"AITA">>, <<"AITA", "workplace_chaos">>}

\* The stage collaborators of run_job, in the order of the code.
StageOrder == <<"generate", "render", "mix", "compose", "thumbnail", "upload">>

VARIABLES
    jobs_dir_exists,  \* jobs_dir.exists()
    store,        \* jobs_dir: store[id] is the record in <id>.json
    job,          \* the PipelineJob object run_job works on
    pc,           \* position of the process in run / run_job / the loops
    cmd,          \* the operation the operator invoked
    optUpload,    \* the operator's upload-enable flag (not args.no_upload)
    upload,       \* run_job's parameter upload
    theme,        \* run's parameter theme
    audio_path,   \* run_job's local audio_path
    count,        \* run_batch's parameter count
    themes,       \* run_batch's themes after the config default
    i,            \* run_batch's loop index
    failed_jobs,  \* retry_failed_jobs: the jobs still to retry
    results,      \* the list the operation returns (jobs / results)
    exc,          \* message of the exception being propagated, or None
    raised,       \* message of the exception the operation raised, or None
    config,       \* the settings the process was started with
    frame_paths,  \* run_job's local frame_paths (each with its image)
    message_duration,  \* run_job's local message_duration, in ms
    typing_duration,   \* run_job's local typing_duration, in ms
    total_duration_ms, \* run_job's local total_duration_ms
    sfx_timestamps,    \* run_job's local sfx_timestamps
    clips,        \* compose_from_frames: the duration of each clip, in ms
    hist,         \* history: statuses written to the current job's record
                  \*          since create_job, or since its retry began
    calls,        \* history: stage calls of the current run_job, in order
    runs,         \* history: ids run_job was invoked on by this operation
    base,         \* history: number of records when the operation began
    failedAtStart,\* history: ids that were FAILED when retry began
    failures,     \* history: exceptions raised so far (bounded)
    music_path,   \* run_job's parameter music_path, then the track it uses
    assets,       \* the music library and the notification sound: present?
    tmp,          \* renders_tmp: the temporary artifacts on disk
    published,    \* history: the ids the publisher returned, by job
    status_filter,\* list_jobs' parameter status, when called by the operator
    created,      \* history: the jobs create_job has made, as made
    fn,           \* the function applied on its own, or "none"
    arg,          \* its arguments
    ret,          \* what it returned
    response,     \* _resumable_upload's local response
    error,        \* _resumable_upload's local error
    retry,        \* _resumable_upload's local retry
    sleep_seconds,\* _resumable_upload's local sleep_seconds, in ms
    chunks,       \* the chunks of the upload the server has yet to receive
    transient_errors, \* history: the exceptions the upload loop has caught
    running,      \* Scheduler.running
    mode,         \* the scheduler's mode: interval, daily or times
    spc,          \* position of the scheduler process
    videos_uploaded_today, \* Scheduler.videos_uploaded_today
    videos_per_day,        \* run_daily's parameter
    last_reset_date,       \* Scheduler.last_reset_date: "today" or "earlier"
    tick,         \* the clock: the time of day
    scheduled_times,       \* run_at_times' scheduled_times, sorted
    next_time,    \* run_at_times' next_time, once chosen
    started_for,  \* history: the next_time the last job was started for
    started_today,\* history: the jobs started since midnight
    sleep_left,   \* the calls of time.sleep(60) until sleep_until
    returned      \* history: what the last run_once returned, if any did

vars ==
    <<jobs_dir_exists, store, job, pc, cmd, optUpload, upload, theme, audio_path, count,
      themes, i, failed_jobs, results, exc, raised, config, frame_paths,
      message_duration, typing_duration, total_duration_ms, sfx_timestamps,
      clips, hist, calls, runs, base, failedAtStart, failures,
      music_path, assets, tmp, published,
      status_filter, created, fn, arg, ret,
      response, error, retry, sleep_seconds, chunks, transient_errors,
      running, mode, spc, videos_uploaded_today, videos_per_day,
      last_reset_date, tick, scheduled_times, next_time, started_for,
      started_today, sleep_left, returned>>

\* The temporary artifacts and what the publisher has returned.
Disk == <<tmp, published>>

\* The publisher's upload loop and what it talks to.
Uploader ==
    <<response, error, retry, sleep_seconds, chunks, transient_errors>>

\* The clock, the timetable of run_at_times and what was started by it.
Clock == <<tick, scheduled_times, next_time, started_for, started_today>>

\* The scheduler process and its clock.
Sched ==
    <<running, mode, spc, videos_uploaded_today, videos_per_day,
      last_reset_date, Clock, sleep_left, returned>>

\* What the operations on the store, the functions applied on their own,
\* the upload loop and the scheduler use, and run, run_batch and
\* retry_failed_jobs leave alone.
Aside == <<status_filter, created, fn, arg, ret, Uploader, Sched>>

\* The locals of run_job that carry frames, durations and cues.
Locals ==
    <<frame_paths, message_duration, typing_duration, total_duration_ms,
      sfx_timestamps, clips>>

\* ------------------------------------------------------------- PipelineJob
\* PipelineJob(id=job_id, theme=theme): the dataclass defaults.
PipelineJob(id, th, now) ==
    [id |-> id, theme |-> th, status |-> PENDING, story |-> NoStory,
     video_path |-> None, thumbnail_path |-> None, youtube_id |-> None,
     error |-> None, created_at |-> now, completed_at |-> None]

\* The value of `job` while no job object exists.
NoJob == PipelineJob(0, None, 0)

\* 'status': self.status.value;
\* 'story': self.story.to_dict() if self.story else None   (a Story object
\* is always true)
to_dict(j) ==
    [id |-> j.id, theme |-> j.theme, status |-> value[j.status],
     story |-> IF j.story # NoStory THEN story_to_dict(j.story) ELSE NoStory,
     video_path |-> j.video_path, thumbnail_path |-> j.thumbnail_path,
     youtube_id |-> j.youtube_id, error |-> j.error,
     created_at |-> j.created_at, completed_at |-> j.completed_at]

\* datetime.now().isoformat() where only its presence matters.
Now == "now"

\* datetime.now() as a creation time given to a loaded record that has
\* none: later than every creation.
LoadTime == 1000

\* data['id'], JobStatus(data['status']), the other fields by data.get;
\* if data.get('story'): job.story = Story.from_dict(data['story'])
from_dict(d) ==
    [id |-> d.id, theme |-> Get(d, "theme", None),
     status |-> JobStatusFromValue(d.status),
     story |-> IF Truthy(Get(d, "story", NoStory))
                 THEN story_from_dict(d.story) ELSE NoStory,
     video_path |-> Get(d, "video_path", None),
     thumbnail_path |-> Get(d, "thumbnail_path", None),
     youtube_id |-> Get(d, "youtube_id", None),
     error |-> Get(d, "error", None),
     created_at |-> Get(d, "created_at", LoadTime),
     completed_at |-> Get(d, "completed_at", None)]

\* job.save(jobs_dir): jobs_dir.mkdir(exist_ok=True), then writes <id>.json,
\* creating or overwriting it.
save(s, j) ==
    [k \in DOMAIN s \cup {j.id} |-> IF k = j.id THEN to_dict(j) ELSE s[k]]

\* The status history grows with every save.
Logged(h, j) == Append(h, j.status)

\* _update_job(job, status): set the status (the caller saves).
update_job(j, st) == [j EXCEPT !.status = st]

\* Mutant: the keyword arguments are not applied to the job.
update_job_error_ignored(j, st, msg) == [j EXCEPT !.status = st]

\* _update_job(job, status, error=msg)
update_job_error(j, st, msg) == [j EXCEPT !.status = st, !.error = msg]

Call(stage, ok) == [stage |-> stage, ok |-> ok]

\* str(e) of the exception a stage (or the cleanup) raises.
ErrorMessage ==
    [generate |-> "generate error", render |-> "render error",
     mix |-> "mix error", compose |-> "compose error",
     thumbnail |-> "thumbnail error", upload |-> "upload error",
     cleanup |-> "cleanup error"]

\* ------------------------------------------------------------------ config
\* The settings run_job reads, durations in ms.  DefaultConfig holds the
\* defaults of the config.get calls.
DefaultConfig ==
    [typing_animation |-> TRUE, message_delay |-> 1500,
     typing_duration |-> 800, duration_min |-> 30, duration_max |-> 59,
     notification_sound |-> TRUE]

\* The settings files considered: typing frames on or off.
Configs ==
    {[DefaultConfig EXCEPT !.typing_animation = b] : b \in BOOLEAN}

\* -------------------------------------------------------- StoryGenerator
\* generate(): Story.from_dict(story_data), story_data being the JSON the
\* language model answered, with an avatar colour given to each message.
\* The answer has any number of messages, none included.
GeneratedStory(n) ==
    story_from_dict(
        [title |-> "title", theme |-> "AITA", description |-> "description",
         tags |-> <<"shorts">>,
         messages |-> [k \in 1 .. n |->
                          [username |-> "ChaosGremlin", content |-> "bruh",
                           avatar_color |-> "#5865F2",
                           reactions |-> <<"skull">>]]])

\* ------------------------------------------------------- DiscordRenderer
\* A rendered frame: its file frame_<frame_num><suffix>.png and the number of
\* messages visible in the image.
Frame(frame_num, suffix, visible_count) ==
    [frame_num |-> frame_num, suffix |-> suffix,
     visible_count |-> visible_count]

RECURSIVE Digits(_)
\* The decimal digits of a number, most significant first.
Digits(n) == IF n < 10 THEN <<n>> ELSE Append(Digits(n \div 10), n % 10)

RECURSIVE ZeroPadded(_, _)
\* format(n, '04d'): at least width digits, zeros in front.
ZeroPadded(digits, width) ==
    IF Len(digits) >= width THEN digits
    ELSE ZeroPadded(<<0>> \o digits, width)

\* Strings as the sequences of their characters' codes: "frame_",
\* "_typing", ".png" and "typing"; the digit d has code 48 + d.
FramePrefix == <<102, 114, 97, 109, 101, 95>>

TypingSuffix == <<95, 116, 121, 112, 105, 110, 103>>

PngExtension == <<46, 112, 110, 103>>

TypingWord == <<116, 121, 112, 105, 110, 103>>

\* os.path.basename(frame_path): f"frame_{frame_num:04d}_typing.png" or
\* f"frame_{frame_num:04d}.png"
basename(frame) ==
    LET digits == ZeroPadded(Digits(frame.frame_num), 4)
    IN  FramePrefix \o [k \in 1 .. Len(digits) |-> 48 + digits[k]]
            \o (IF frame.suffix = "_typing" THEN TypingSuffix ELSE <<>>)
            \o PngExtension

\* word in text, for strings
Contains(text, word) ==
    \E k \in 0 .. Len(text) - Len(word) :
        SubSeq(text, k + 1, k + Len(word)) = word

\* One iteration of the loop, for message k: a typing frame before every
\* message but the first when include_typing, then the message's frame;
\* frame_num counts the frames.
render_iteration(k, include_typing, paths) ==
    LET typed == IF include_typing /\ k > 1
                   THEN Append(paths, Frame(Len(paths), "_typing", k - 1))
                   ELSE paths
    IN  Append(typed, Frame(Len(typed), "", k))

RECURSIVE render_range(_, _, _, _)
\* for i in range(lo, hi + 1): the iterations lo..hi of the loop, in order,
\* the second half once the first has appended its frames (so that long
\* stories stay within the stack).
render_range(lo, hi, include_typing, paths) ==
    IF lo > hi THEN paths
    ELSE IF lo = hi THEN render_iteration(lo, include_typing, paths)
    ELSE LET mid == (lo + hi) \div 2
             first == render_range(lo, mid, include_typing, paths)
         IN  IF Len(first) > Len(paths)
               THEN render_range(mid + 1, hi, include_typing, first)
               ELSE first

\* render_all_frames(story, output_dir, include_typing)
render_all_frames(st, include_typing) ==
    render_range(1, Len(st.messages), include_typing, <<>>)

\* ------------------------------------------------------------ AudioMixer
RECURSIVE sfx_loop(_, _, _, _, _, _, _)
\* for i in range(num_messages): if i > 0: current_time += typing;
\* if not (skip_first and i == 0): append; current_time += message
sfx_loop(k, num_messages, message_ms, typing_ms, skip_first, current_time, timestamps) ==
    IF k >= num_messages THEN timestamps
    ELSE LET t == IF k > 0 THEN current_time + typing_ms ELSE current_time
         IN  sfx_loop(k + 1, num_messages, message_ms, typing_ms, skip_first,
                      t + message_ms,
                      IF ~(skip_first /\ k = 0) THEN Append(timestamps, t)
                                                ELSE timestamps)

\* calculate_sfx_timestamps had it not advanced the clock by the typing beat.
calculate_sfx_timestamps_typing_ignored(num_messages, message_ms, typing_ms, skip_first) ==
    sfx_loop(0, num_messages, message_ms, 0, skip_first, 0, <<>>)

\* calculate_sfx_timestamps(num_messages, message_duration_ms,
\*                          typing_duration_ms, skip_first=True)
calculate_sfx_timestamps(num_messages, message_ms, typing_ms, skip_first) ==
    sfx_loop(0, num_messages, message_ms, typing_ms, skip_first, 0, <<>>)

\* ---------------------------------------------------------- VideoComposer
Min(a, b) == IF a < b THEN a ELSE b

Max(a, b) == IF a > b THEN a ELSE b

\* ------------------------------------------------------------------ assets
\* What the assets directories hold: library, some file of a supported
\* format in assets/music; notification, some such file in assets/sfx.
Assets == [library : BOOLEAN, notification : BOOLEAN]

\* The deployment with music and a notification sound in place.
DefaultAssets == [library |-> TRUE, notification |-> TRUE]

\* The music paths a caller may give run: none, a file that exists, a file
\* that does not.
MusicPaths == {None, "track.mp3", "missing.mp3"}

\* path.exists() for an audio file
Exists(path) == path \in {"track.mp3", "library.mp3", "notification.mp3"}

\* The length in ms of each audio file on disk.
Length(path) ==
    CASE path = "library.mp3" -> 2000
      [] path = "track.mp3" -> 7000
      [] path = "notification.mp3" -> 300

\* Mutant: get_random_music names a file whether or not the library has one.
get_random_music_unguarded(a) ==
    IF a.library THEN "library.mp3" ELSE "missing.mp3"

\* get_random_music(): random.choice of the library's files, None when the
\* library is empty or absent.
get_random_music(a) == IF a.library THEN "library.mp3" ELSE None

\* get_notification_sound(): a file of assets/sfx, None when there is none.
get_notification_sound(a) ==
    IF a.notification THEN "notification.mp3" ELSE None

RECURSIVE Looped(_, _)
\* while len(music) < duration_ms: music = music + music
Looped(length, duration_ms) ==
    IF length < duration_ms THEN Looped(length + length, duration_ms)
    ELSE length

\* prepare_background_music: the length of music[:duration_ms] after the
\* loop (fades and volume leave the length alone).
prepare_background_music(music, duration_ms) ==
    Min(Looped(Length(music), duration_ms), duration_ms)

RECURSIVE Overlaid(_, _)
\* create_sfx_track: for ts in timestamps_ms: if ts < total_duration_ms:
\* combined = combined.overlay(sfx, position=ts).  The cues overlaid.
Overlaid(timestamps_ms, total_ms) ==
    IF timestamps_ms = <<>> THEN <<>>
    ELSE IF Head(timestamps_ms) < total_ms
           THEN <<Head(timestamps_ms)>>
                    \o Overlaid(Tail(timestamps_ms), total_ms)
           ELSE Overlaid(Tail(timestamps_ms), total_ms)

\* An audio segment: its length in ms, whether it carries music, and the
\* instants at which the notification sound is overlaid.
Segment(length, music, sfx) ==
    [length |-> length, music |-> music, sfx |-> sfx]

\* str(e) of load_audio's FileNotFoundError
AudioNotFound == "Audio file not found"

\* mix_for_video had it called mix_tracks with no track at all.
mix_for_video_no_tracks_raises(duration_ms, music, sfx_timestamps_ms, output_path, a, notification_sound) ==
    LET chosen == IF music = None THEN get_random_music(a) ELSE music
    IN  IF chosen = None
          THEN [raised |-> "No tracks to mix"]
          ELSE [raised |-> None,
                mixed |-> Segment(prepare_background_music(chosen,
                                      duration_ms), TRUE, <<>>),
                saved_path |-> output_path]

\* mix_for_video(duration_ms, music_path, sfx_timestamps_ms, output_path):
\* the music when there is any (load_audio raises FileNotFoundError when
\* the file does not exist), the notification sounds when timestamps are
\* given, the setting is on and a sound exists; mix_tracks takes the
\* longest track and overlays the others; silence if there is no track.
\* notification_sound is config.get('audio.notification_sound', True).
mix_for_video(duration_ms, music, sfx_timestamps_ms, output_path, a, notification_sound) ==
    LET chosen == IF music = None THEN get_random_music(a) ELSE music
        sfx_path == get_notification_sound(a)
        with_sfx == /\ sfx_timestamps_ms # <<>>
                    /\ notification_sound
                    /\ sfx_path # None
        music_length == prepare_background_music(chosen, duration_ms)
        lengths == (IF chosen # None THEN {music_length} ELSE {})
                     \cup (IF with_sfx THEN {duration_ms} ELSE {})
        longest == CHOOSE l \in lengths : \A o \in lengths : o <= l
    IN  IF chosen # None /\ ~Exists(chosen)
          THEN [raised |-> AudioNotFound]
          ELSE [raised |-> None,
                mixed |-> Segment(IF lengths # {} THEN longest
                                                  ELSE duration_ms,
                                  chosen # None,
                                  IF with_sfx
                                    THEN Overlaid(sfx_timestamps_ms,
                                                  duration_ms)
                                    ELSE <<>>),
                saved_path |-> output_path]

\* _calculate_durations had it returned the split without the clamps.
calculate_durations_unclamped(num_messages, min_duration, max_duration) ==
    LET target_ms == (min_duration + max_duration) * 500
    IN  [display |-> (target_ms * 7) \div (num_messages * 10),
         typing |-> (target_ms * 3) \div (num_messages * 10)]

\* _calculate_durations(story): target = (min + max) / 2 seconds, split
\* over the messages, 70% display and 30% typing, clamped; here in whole ms.
calculate_durations(num_messages, min_duration, max_duration) ==
    LET target_ms == (min_duration + max_duration) * 500
        typing_time == (target_ms * 3) \div (num_messages * 10)
        display_time == (target_ms * 7) \div (num_messages * 10)
    IN  [display |-> Max(1000, Min(3000, display_time)),
         typing |-> Max(400, Min(1000, typing_time))]

\* compose_from_frames had it told the typing frames by their place in the
\* list: every second frame.
clip_durations_by_position(paths, message_ms, typing_ms) ==
    [k \in 1 .. Len(paths) |-> IF k % 2 = 0 THEN typing_ms ELSE message_ms]

\* compose_from_frames: is_typing = 'typing' in basename(frame_path);
\* duration = typing_duration if is_typing else message_duration
clip_durations(paths, message_ms, typing_ms) ==
    [k \in 1 .. Len(paths) |->
        IF Contains(basename(paths[k]), TypingWord) THEN typing_ms
                                                     ELSE message_ms]

RECURSIVE Total(_)
\* concatenate_videoclips(clips).duration: the clips one after the other.
Total(durations) ==
    IF durations = <<>> THEN 0
    ELSE Head(durations) + Total(Tail(durations))

\* compose_from_frames had it looped the audio int(video / audio) times.
audio_loops_needed_short(video_ms, audio_ms) == video_ms \div audio_ms

\* loops_needed = int(video.duration / audio.duration) + 1
audio_loops_needed(video_ms, audio_ms) == (video_ms \div audio_ms) + 1

\* The audio file handed to the composer: none (audio_path is None or no
\* such file exists), or a file of some length in ms.
NoAudio == [exists |-> FALSE]

AudioFile(length) == [exists |-> TRUE, length |-> length]

\* compose_from_frames(frame_paths, output_path, audio_path,
\* message_duration, typing_duration): the clips, the video's duration,
\* the audio's duration after the loop and after
\* audio.subclipped(0, video.duration), the duration written.
compose_from_frames(paths, audio, message_ms, typing_ms) ==
    LET durations == clip_durations(paths, message_ms, typing_ms)
        video == Total(durations)
        looped == IF audio.length < video
                    THEN audio.length
                             * audio_loops_needed(video, audio.length)
                    ELSE audio.length
    IN  [clips |-> durations,
         video |-> video,
         looped |-> IF audio.exists THEN looped ELSE None,
         audio |-> IF audio.exists THEN Min(looped, video) ELSE None,
         written |-> video]

\* ---------------------------------------------------------------- Pipeline
\* No upload is under way.
NoUpload ==
    /\ response = None
    /\ error = None
    /\ retry = 0
    /\ sleep_seconds = 0
    /\ chunks = 0
    /\ transient_errors = 0

\* No scheduler was started.
NoScheduler ==
    /\ running = FALSE
    /\ mode = "none"
    /\ spc = "none"
    /\ videos_uploaded_today = 0
    /\ videos_per_day = 0
    /\ last_reset_date = "today"
    /\ tick = 0
    /\ scheduled_times = <<>>
    /\ next_time = <<>>
    /\ started_for = <<>>
    /\ started_today = 0
    /\ sleep_left = 0
    /\ returned = <<>>

\* The state of the orchestrator before any operation, but for the config.
Idle ==
    /\ jobs_dir_exists = FALSE
    /\ store = <<>>
    /\ job = NoJob
    /\ pc = "done"
    /\ cmd = "none"
    /\ optUpload = TRUE
    /\ upload = TRUE
    /\ theme = None
    /\ audio_path = None
    /\ count = 0
    /\ themes = <<>>
    /\ i = 0
    /\ failed_jobs = <<>>
    /\ results = <<>>
    /\ exc = None
    /\ raised = None
    /\ hist = <<>>
    /\ calls = <<>>
    /\ runs = <<>>
    /\ base = 0
    /\ failedAtStart = {}
    /\ failures = 0
    /\ frame_paths = <<>>
    /\ message_duration = 0
    /\ typing_duration = 0
    /\ total_duration_ms = 0
    /\ sfx_timestamps = <<>>
    /\ clips = <<>>
    /\ status_filter = None
    /\ created = <<>>
    /\ fn = "none"
    /\ ret = <<>>
    /\ music_path = None
    /\ tmp = {}
    /\ published = {}

\* The process starts with the defaults of the code.
Init ==
    /\ Idle /\ NoUpload /\ NoScheduler
    /\ config = DefaultConfig /\ assets = DefaultAssets /\ arg = <<>>

\* run_job's locals are gone when it ends.
ForgetLocals ==
    /\ frame_paths' = <<>>
    /\ message_duration' = 0
    /\ typing_duration' = 0
    /\ total_duration_ms' = 0
    /\ sfx_timestamps' = <<>>
    /\ clips' = <<>>

\* What an operation resets when it begins (fresh locals, fresh histories).
Begin(name) ==
    /\ pc = "done"
    /\ cmd' = name
    /\ job' = NoJob
    /\ results' = <<>>
    /\ exc' = None
    /\ raised' = None
    /\ audio_path' = None
    /\ hist' = <<>>
    /\ calls' = <<>>
    /\ runs' = <<>>
    /\ base' = Len(store)
    /\ UNCHANGED <<jobs_dir_exists, store, failures, config, assets, Disk, Locals, Aside>>

\* ------------------------------------------------------------ Pipeline.run
\* The operator (or an API caller) invokes run(theme, upload, music_path),
\* musics being the music paths it may give.
RunWith(musics) ==
    /\ Len(store) < MaxJobs
    /\ Begin("run")
    /\ \E th \in {None, "AITA"}, up \in BOOLEAN, music \in musics :
          /\ theme' = th
          /\ upload' = up
          /\ optUpload' = up
          /\ music_path' = music
    /\ pc' = "create"
    /\ count' = 0
    /\ themes' = <<>>
    /\ i' = 0
    /\ failed_jobs' = <<>>
    /\ failedAtStart' = {}

\* pipeline.py's command run: pipeline.run(theme, upload), no music path.
Run == RunWith({None})

\* main.py's command run: pipeline.run(theme, upload, music_path=args.music)
RunAnyMusic == RunWith(MusicPaths)

\* create_job(theme): a PENDING job, saved at once, where the identifier
\* drawn is one no file of the store has (CreateJobAnyId is create_job with
\* any identifier).  Creation timestamps follow creation order.
CreateJob ==
    /\ pc = "create"
    /\ job' = PipelineJob(Len(store) + 1, theme, Len(store) + 1)
    /\ store' = save(store, job')
    /\ jobs_dir_exists' = TRUE
    /\ hist' = Logged(<<>>, job')
    /\ calls' = <<>>
    /\ pc' = "update_generating"
    /\ UNCHANGED <<cmd, optUpload, upload, music_path, theme, audio_path, count, themes,
                   i, failed_jobs, results, exc, raised, runs, base,
                   failedAtStart, failures, config, assets, Disk, Locals, Aside>>

\* -------------------------------------------------------- Pipeline.run_job
\* What no statement of run_job touches.
RunJobFrame ==
    UNCHANGED <<cmd, optUpload, upload, theme, count, themes, i, failed_jobs,
                results, raised, base, failedAtStart, config, assets, Aside>>

\* Mutant: _update_job sets the status and does not save.
Transition_unsaved(st, next) ==
    /\ job' = update_job(job, st)
    /\ pc' = next
    /\ UNCHANGED <<jobs_dir_exists, store, hist>>

\* A statement of run_job that calls _update_job(job, st).
Transition(st, next) ==
    /\ job' = update_job(job, st)
    /\ store' = save(store, job')
    /\ jobs_dir_exists' = TRUE
    /\ hist' = Logged(hist, job')
    /\ pc' = next

\* Step 1: _update_job(job, GENERATING_STORY), the first statement.
UpdateGenerating ==
    /\ pc = "update_generating"
    /\ Transition(GENERATING_STORY, "generate")
    /\ runs' = Append(runs, job.id)
    /\ UNCHANGED <<audio_path, exc, calls, failures, Locals>>
    /\ UNCHANGED <<music_path, Disk>>
    /\ RunJobFrame

\* A stage call that returns normally.
Returns(stage) ==
    /\ calls' = Append(calls, Call(stage, TRUE))
    /\ UNCHANGED <<jobs_dir_exists, store, hist, exc, runs, failures>>

\* Mutant: the orchestrator calls a stage that raised once more.
Raises_retried(stage) ==
    /\ failures < MaxFailures
    /\ failures' = failures + 1
    /\ calls' = Append(calls, Call(stage, FALSE))
    /\ pc' = stage
    /\ UNCHANGED <<jobs_dir_exists, store, hist, job, audio_path, runs, exc>>

\* A stage call that raises: control goes to the except clause.
Raises(stage) ==
    /\ failures < MaxFailures
    /\ failures' = failures + 1
    /\ calls' = Append(calls, Call(stage, FALSE))
    /\ exc' = ErrorMessage[stage]
    /\ pc' = "except"
    /\ UNCHANGED <<jobs_dir_exists, store, hist, job, audio_path, runs>>

\* A stage call that raises whatever else happens: its input makes it.
RaisesAsItMust(stage, msg) ==
    /\ calls' = Append(calls, Call(stage, FALSE))
    /\ exc' = msg
    /\ pc' = "except"
    /\ UNCHANGED <<jobs_dir_exists, store, hist, job, audio_path, runs,
                   failures>>

\* A temporary artifact of a job: its frames directory frames_<id> or its
\* audio file audio_<id>.mp3.
Temp(kind, id) == [kind |-> kind, id |-> id]

\* _cleanup_temp had it left the audio file behind.
cleanup_temp_frames_only(t, id) == t \ {Temp("frames", id)}

\* _cleanup_temp(job_id): frames_<id> and audio_<id>.mp3 are removed if
\* they exist.
cleanup_temp(t, id) == t \ {Temp("frames", id), Temp("audio", id)}

\* What the publisher returned for a job.
Published(id, video_id) == [job |-> id, video_id |-> video_id]

\* Mutant: the story is not attached to the job.
Generate_unattached ==
    /\ pc = "generate"
    /\ \/ /\ Returns("generate")
          /\ pc' = "update_rendering"
          /\ UNCHANGED <<job, audio_path>>
       \/ Raises("generate")
    /\ UNCHANGED Locals
    /\ UNCHANGED <<music_path, Disk>>
    /\ RunJobFrame

\* story = self.story_generator.generate(theme=job.theme); job.story = story
\* lengths: the numbers of messages the generated story may have.
GenerateStory(lengths) ==
    /\ pc = "generate"
    /\ \/ /\ Returns("generate")
          /\ \E n \in lengths :
                job' = [job EXCEPT !.story = GeneratedStory(n)]
          /\ pc' = "update_rendering"
          /\ UNCHANGED audio_path
       \/ Raises("generate")
    /\ UNCHANGED Locals
    /\ UNCHANGED <<music_path, Disk>>
    /\ RunJobFrame

\* Step 1 where the story has one message: what the orchestrator does with
\* a job does not depend on what its story says.
Generate == GenerateStory({1})

\* Step 1 where the story has any number of messages.
GenerateAny == GenerateStory(0 .. MaxMessages)

\* Step 2: _update_job(job, RENDERING_FRAMES)
UpdateRendering ==
    /\ pc = "update_rendering"
    /\ Transition(RENDERING_FRAMES, "render")
    /\ UNCHANGED <<audio_path, exc, calls, runs, failures, Locals>>
    /\ UNCHANGED <<music_path, Disk>>
    /\ RunJobFrame

\* frame_paths = self.renderer.render_all_frames(story, frames_dir,
\*     include_typing=self.config.get('video.typing_animation', True))
\* render_all_frames makes frames_dir first (os.makedirs), so the directory
\* can be there when it raises.
Render ==
    /\ pc = "render"
    /\ \/ /\ Returns("render")
          /\ frame_paths' =
                render_all_frames(job.story, config.typing_animation)
          /\ tmp' = tmp \cup {Temp("frames", job.id)}
          /\ pc' = "update_mixing"
          /\ UNCHANGED <<job, audio_path>>
       \/ /\ Raises("render")
          /\ tmp' \in {tmp, tmp \cup {Temp("frames", job.id)}}
          /\ UNCHANGED frame_paths
    /\ UNCHANGED <<message_duration, typing_duration, total_duration_ms,
                   sfx_timestamps, clips>>
    /\ UNCHANGED <<music_path, published>>
    /\ RunJobFrame

\* Step 3: _update_job(job, MIXING_AUDIO)
UpdateMixing ==
    /\ pc = "update_mixing"
    /\ Transition(MIXING_AUDIO, "mix")
    /\ UNCHANGED <<audio_path, exc, calls, runs, failures, Locals>>
    /\ UNCHANGED <<music_path, Disk>>
    /\ RunJobFrame

\* message_duration = config.get('discord.message_delay', 1.5);
\* typing_duration = config.get('video.typing_duration', 0.8);
\* total_duration_ms = int(len(story.messages) * (message + typing) * 1000);
\* if music_path is None: music_path = get_random_music()   (None when the
\* library is empty); audio_path = None;
\* if music_path: sfx_timestamps = calculate_sfx_timestamps(...);
\*                _, audio_path = mix_for_video(...)   (which can raise)
Mix ==
    /\ pc = "mix"
    /\ message_duration' = config.message_delay
    /\ typing_duration' = config.typing_duration
    /\ total_duration_ms' =
          Len(job.story.messages) * (message_duration' + typing_duration')
    /\ LET chosen == IF music_path = None THEN get_random_music(assets)
                                          ELSE music_path
           timestamps ==
               calculate_sfx_timestamps(Len(job.story.messages),
                   message_duration', typing_duration', TRUE)
           mix == mix_for_video(total_duration_ms', chosen,
                      IF config.notification_sound THEN timestamps
                                                   ELSE <<>>,
                      "audio.mp3", assets, config.notification_sound)
       IN  /\ music_path' = chosen
           /\ IF chosen = None
                 THEN /\ Returns("mix")
                      /\ audio_path' = None
                      /\ pc' = "update_composing"
                      /\ UNCHANGED <<job, sfx_timestamps, tmp>>
                 ELSE IF mix.raised # None
                   THEN /\ RaisesAsItMust("mix", mix.raised)
                        /\ UNCHANGED <<sfx_timestamps, tmp>>
                   ELSE \/ /\ Returns("mix")
                           /\ sfx_timestamps' = timestamps
                           /\ audio_path' = mix.saved_path
                           /\ tmp' = tmp \cup {Temp("audio", job.id)}
                           /\ pc' = "update_composing"
                           /\ UNCHANGED job
                        \/ /\ Raises("mix")
                           /\ UNCHANGED <<sfx_timestamps, tmp>>
    /\ UNCHANGED <<frame_paths, clips, published>>
    /\ RunJobFrame

\* Step 4: _update_job(job, COMPOSING_VIDEO)
UpdateComposing ==
    /\ pc = "update_composing"
    /\ Transition(COMPOSING_VIDEO, "compose")
    /\ UNCHANGED <<audio_path, exc, calls, runs, failures, Locals>>
    /\ UNCHANGED <<music_path, Disk>>
    /\ RunJobFrame

\* self.composer.compose_from_frames(..., audio_path=audio_path, ...);
\* job.video_path = str(video_path).  audio_path is not read afterwards.
Compose ==
    /\ pc = "compose"
    /\ \/ /\ Returns("compose")
          /\ clips' =
                clip_durations(frame_paths, message_duration, typing_duration)
          /\ job' = [job EXCEPT !.video_path = "video.mp4"]
          /\ audio_path' = None
          /\ pc' = "thumbnail"
       \/ /\ Raises("compose")
          /\ UNCHANGED clips
    /\ UNCHANGED <<frame_paths, message_duration, typing_duration,
                   total_duration_ms, sfx_timestamps>>
    /\ UNCHANGED <<music_path, Disk>>
    /\ RunJobFrame

\* self.composer.create_thumbnail(...); job.thumbnail_path = str(...)
Thumbnail ==
    /\ pc = "thumbnail"
    /\ \/ /\ Returns("thumbnail")
          /\ job' = [job EXCEPT !.thumbnail_path = "thumbnail.png"]
          /\ pc' = "upload_branch"
          /\ UNCHANGED audio_path
       \/ Raises("thumbnail")
    /\ UNCHANGED Locals
    /\ UNCHANGED <<music_path, Disk>>
    /\ RunJobFrame

\* Step 5: if upload: _update_job(job, UPLOADING) ... else: skip
UploadBranch ==
    /\ pc = "upload_branch"
    /\ IF upload
         THEN Transition(UPLOADING, "upload")
         ELSE /\ pc' = "complete"
              /\ UNCHANGED <<jobs_dir_exists, store, hist, job>>
    /\ UNCHANGED <<audio_path, exc, calls, runs, failures, Locals>>
    /\ UNCHANGED <<music_path, Disk>>
    /\ RunJobFrame

\* response['id'] of a finished upload: the platform gives every video it
\* receives an id of its own.
response_id(p) ==
    IF p = {} THEN "video_id"
    ELSE "video_id_" \o ToString(Cardinality(p) + 1)

\* video_id = self.uploader.upload(...); if video_id: job.youtube_id = video_id
Upload ==
    /\ pc = "upload"
    /\ \/ /\ Returns("upload")
          /\ \E video_id \in {None, response_id(published)} :
                /\ job' = IF video_id # None
                            THEN [job EXCEPT !.youtube_id = video_id]
                            ELSE job
                /\ published' =
                      IF video_id # None
                        THEN published \cup {Published(job.id, video_id)}
                        ELSE published
          /\ pc' = "complete"
          /\ UNCHANGED audio_path
       \/ /\ Raises("upload")
          /\ UNCHANGED published
    /\ UNCHANGED Locals
    /\ UNCHANGED <<music_path, tmp>>
    /\ RunJobFrame

\* job.completed_at = now; _update_job(job, COMPLETED)
Complete ==
    /\ pc = "complete"
    /\ job' = update_job([job EXCEPT !.completed_at = Now], COMPLETED)
    /\ store' = save(store, job')
    /\ jobs_dir_exists' = TRUE
    /\ hist' = Logged(hist, job')
    /\ pc' = "cleanup"
    /\ UNCHANGED <<audio_path, exc, calls, runs, failures, Locals>>
    /\ UNCHANGED <<music_path, Disk>>
    /\ RunJobFrame

\* self._cleanup_temp(job.id), inside the try block: shutil.rmtree and
\* unlink can raise, unlink after the frames directory is gone.  Then:
\* return job.
Cleanup ==
    /\ pc = "cleanup"
    /\ \/ /\ pc' = "return"
          /\ tmp' = cleanup_temp(tmp, job.id)
          /\ ForgetLocals
          /\ UNCHANGED <<exc, failures>>
       \/ /\ failures < MaxFailures
          /\ failures' = failures + 1
          /\ exc' = ErrorMessage["cleanup"]
          /\ pc' = "except"
          /\ tmp' \in {tmp, tmp \ {Temp("frames", job.id)}}
          /\ UNCHANGED Locals
    /\ UNCHANGED <<jobs_dir_exists, store, hist, job, audio_path, calls, runs>>
    /\ UNCHANGED <<music_path, published>>
    /\ RunJobFrame

\* Mutant: the except clause marks the record last saved as FAILED
\* instead of saving the job.
HandleException_record_patched ==
    /\ pc = "except"
    /\ job' = update_job_error(job, FAILED, exc)
    /\ store' = [store EXCEPT ![job.id] =
                    [@ EXCEPT !.status = value[FAILED], !.error = exc]]
    /\ jobs_dir_exists' = TRUE
    /\ hist' = Logged(hist, job')
    /\ audio_path' = None
    /\ ForgetLocals
    /\ pc' = "raise"
    /\ UNCHANGED <<exc, calls, runs, failures>>
    /\ UNCHANGED <<music_path, Disk>>
    /\ RunJobFrame

\* except Exception as e: _update_job(job, FAILED, error=str(e)); raise
HandleException ==
    /\ pc = "except"
    /\ job' = update_job_error(job, FAILED, exc)
    /\ store' = save(store, job')
    /\ jobs_dir_exists' = TRUE
    /\ hist' = Logged(hist, job')
    /\ audio_path' = None
    /\ ForgetLocals
    /\ pc' = "raise"
    /\ UNCHANGED <<exc, calls, runs, failures>>
    /\ UNCHANGED <<music_path, Disk>>
    /\ RunJobFrame

\* What run_job's callers leave alone when run_job has ended.
CallerFrame ==
    UNCHANGED <<jobs_dir_exists, store, hist, job, cmd, optUpload, upload, music_path, theme, audio_path,
                count, themes, failed_jobs, calls, runs, base, failedAtStart,
                failures, config, assets, Disk, Locals, Aside>>

\* run: return self.run_job(job, ...) hands the job to the operator.
RunReturn ==
    /\ cmd = "run"
    /\ pc = "return"
    /\ results' = <<job>>
    /\ pc' = "done"
    /\ UNCHANGED <<exc, raised, i>>
    /\ CallerFrame

\* run: the exception run_job re-raised reaches the operator.
RunRaise ==
    /\ cmd = "run"
    /\ pc = "raise"
    /\ raised' = exc
    /\ exc' = None
    /\ pc' = "done"
    /\ UNCHANGED <<results, i>>
    /\ CallerFrame

\* ------------------------------------------------------ Pipeline.run_batch
\* run_batch(count, themes, upload).  if themes is None: themes =
\* config.get('story.themes', []): either way some list, possibly empty.
\* The loop calls self.run(theme=theme, upload=upload).
RunBatch ==
    /\ Begin("batch")
    /\ \E n \in 0 .. (MaxJobs - Len(store)), up \in BOOLEAN,
          ths \in ThemeLists :
          /\ count' = n
          /\ upload' = up
          /\ optUpload' = up
          /\ themes' = ths
    /\ i' = 0
    /\ theme' = None
    /\ music_path' = None
    /\ failed_jobs' = <<>>
    /\ failedAtStart' = {}
    /\ pc' = "batch_loop"

\* Mutant: the list is not cycled; jobs past its end get no theme.
BatchTheme_uncycled(ths, k) ==
    IF k < Len(ths) THEN ths[k + 1] ELSE None

\* theme = themes[i % len(themes)] if themes else None   (0-based in Python)
BatchTheme(ths, k) ==
    IF ths # <<>> THEN ths[(k % Len(ths)) + 1] ELSE None

\* for i in range(count): theme = ...; job = self.run(theme, upload)
\* after the loop: return jobs
BatchLoop ==
    /\ cmd = "batch"
    /\ pc = "batch_loop"
    /\ IF i < count
         THEN /\ theme' = BatchTheme(themes, i)
              /\ music_path' = None
              /\ pc' = "create"
         ELSE /\ pc' = "done"
              /\ UNCHANGED <<theme, music_path>>
    /\ UNCHANGED <<jobs_dir_exists, store, hist, job, cmd, optUpload, upload, audio_path,
                   count, themes, i, failed_jobs, results, exc, raised, calls,
                   runs, base, failedAtStart, failures, config, assets, Disk, Locals, Aside>>

\* try: job = self.run(...); jobs.append(job)
BatchAppend ==
    /\ cmd = "batch"
    /\ pc = "return"
    /\ results' = Append(results, job)
    /\ i' = i + 1
    /\ pc' = "batch_loop"
    /\ UNCHANGED <<exc, raised>>
    /\ CallerFrame

\* Mutant: the batch does not catch; the job's exception ends it.
BatchCatch_propagates ==
    /\ cmd = "batch"
    /\ pc = "raise"
    /\ raised' = exc
    /\ exc' = None
    /\ pc' = "done"
    /\ UNCHANGED <<results, i>>
    /\ CallerFrame

\* except Exception as e: print(...)   # Continue with remaining jobs
BatchCatch ==
    /\ cmd = "batch"
    /\ pc = "raise"
    /\ exc' = None
    /\ i' = i + 1
    /\ pc' = "batch_loop"
    /\ UNCHANGED <<results, raised>>
    /\ CallerFrame

\* ------------------------------------------------------- Pipeline.list_jobs
\* PipelineJob.load(filepath) returns: the file is JSON (not cut short), a
\* dict with 'id' and a 'status' that is a JobStatus value, and a story, if
\* any, that Story.from_dict accepts.  Otherwise it raises.
loads(f) ==
    /\ "truncated" \notin DOMAIN f
    /\ {"id", "status"} \subseteq DOMAIN f
    /\ IsJobStatusValue(f.status)
    /\ Truthy(Get(f, "story", NoStory)) => story_loads(f.story)

RECURSIVE Orders(_)
\* The sequences that list each element of a set once.
Orders(S) ==
    IF S = {} THEN {<<>>}
    ELSE UNION {{<<x>> \o rest : rest \in Orders(S \ {x})} : x \in S}

\* self.jobs_dir.glob('*.json'): the files of the store, in any order.
Glob(s) == Orders(DOMAIN s)

RECURSIVE load_loop_aborting(_, _, _, _)
\* list_jobs had the try enclosed the loop: the first file that does not
\* load ends the listing.
load_loop_aborting(paths, s, status, jobs) ==
    IF paths = <<>> THEN jobs
    ELSE LET f == s[Head(paths)]
             loaded == from_dict(f)
         IN  IF ~loads(f) THEN jobs
             ELSE load_loop_aborting(Tail(paths), s, status,
                      IF status = None \/ loaded.status = status
                        THEN Append(jobs, loaded) ELSE jobs)

RECURSIVE load_loop(_, _, _, _)
\* for filepath in glob: try: job = load(filepath); if status is None or
\* job.status == status: jobs.append(job); except Exception: continue
load_loop(paths, s, status, jobs) ==
    IF paths = <<>> THEN jobs
    ELSE LET f == s[Head(paths)]
             loaded == from_dict(f)
         IN  load_loop(Tail(paths), s, status,
                 IF loads(f) /\ (status = None \/ loaded.status = status)
                   THEN Append(jobs, loaded) ELSE jobs)

\* list_jobs had it not sorted: the jobs stay in the order glob gave.
SortByCreatedDesc_unsorted(jobs) == jobs

RECURSIVE SortByCreatedDesc(_)
\* jobs.sort(key=lambda j: j.created_at, reverse=True): stable, so jobs of
\* equal creation time keep the order they were loaded in.
SortByCreatedDesc(jobs) ==
    IF jobs = <<>> THEN <<>>
    ELSE LET last == jobs[Len(jobs)]
             rest == SortByCreatedDesc(SubSeq(jobs, 1, Len(jobs) - 1))
             n == Cardinality({k \in 1 .. Len(rest) :
                                  rest[k].created_at >= last.created_at})
         IN  SubSeq(rest, 1, n) \o <<last>> \o SubSeq(rest, n + 1, Len(rest))

\* list_jobs(status), paths being what glob yields:
\* if not self.jobs_dir.exists(): return jobs
list_jobs(exists, s, status, paths) ==
    IF ~exists THEN <<>>
    ELSE SortByCreatedDesc(load_loop(paths, s, status, <<>>))

\* The files of the store in the order of their creation.  The creation
\* times of the jobs the orchestrator has created differ, so the sort gives
\* list_jobs the same result whatever order glob yields.
Listing(s) == [k \in 1 .. Len(s) |-> k]

\* ----------------------------------------------- Pipeline.retry_failed_jobs
\* CLI command retry: pipeline.retry_failed_jobs(); the operator's --no-upload
\* flag is parsed but not passed on.  failed_jobs = list_jobs(FAILED).
RetryFailedJobs ==
    /\ Begin("retry")
    /\ \E up \in BOOLEAN : optUpload' = up
    /\ failed_jobs' = list_jobs(jobs_dir_exists, store, FAILED, Listing(store))
    /\ failedAtStart' =
          {k \in DOMAIN store :
              loads(store[k]) /\ from_dict(store[k]).status = FAILED}
    /\ upload' = TRUE
    /\ music_path' = None
    /\ theme' = None
    /\ count' = 0
    /\ themes' = <<>>
    /\ i' = 0
    /\ pc' = "retry_loop"

\* Mutant: the error of the failed attempt is not cleared.
RetryLoop_error_kept ==
    /\ cmd = "retry"
    /\ pc = "retry_loop"
    /\ IF failed_jobs # <<>>
         THEN /\ job' = [Head(failed_jobs) EXCEPT !.status = PENDING]
              /\ failed_jobs' = Tail(failed_jobs)
              /\ hist' = <<>>
              /\ calls' = <<>>
              /\ upload' = TRUE
              /\ music_path' = None
              /\ pc' = "update_generating"
         ELSE /\ pc' = "done"
              /\ UNCHANGED <<job, failed_jobs, hist, calls, upload, music_path>>
    /\ UNCHANGED <<jobs_dir_exists, store, cmd, optUpload, theme, audio_path, count, themes,
                   i, results, exc, raised, runs, base, failedAtStart,
                   failures, config, assets, Disk, Locals, Aside>>

\* for job in failed_jobs: job.status = PENDING; job.error = None;
\* result = self.run_job(job)   (upload defaults to True)
\* after the loop: return results
RetryLoop ==
    /\ cmd = "retry"
    /\ pc = "retry_loop"
    /\ IF failed_jobs # <<>>
         THEN /\ job' = [Head(failed_jobs) EXCEPT !.status = PENDING,
                                                   !.error = None]
              /\ failed_jobs' = Tail(failed_jobs)
              /\ hist' = <<>>
              /\ calls' = <<>>
              /\ upload' = TRUE
              /\ music_path' = None
              /\ pc' = "update_generating"
         ELSE /\ pc' = "done"
              /\ UNCHANGED <<job, failed_jobs, hist, calls, upload, music_path>>
    /\ UNCHANGED <<jobs_dir_exists, store, cmd, optUpload, theme, audio_path, count, themes,
                   i, results, exc, raised, runs, base, failedAtStart,
                   failures, config, assets, Disk, Locals, Aside>>

\* try: result = self.run_job(job); results.append(result)
RetryAppend ==
    /\ cmd = "retry"
    /\ pc = "return"
    /\ results' = Append(results, job)
    /\ pc' = "retry_loop"
    /\ UNCHANGED <<exc, raised, i>>
    /\ CallerFrame

\* Mutant: the loop of retry_failed_jobs had no except clause.
RetryCatch_uncaught ==
    /\ cmd = "retry"
    /\ pc = "raise"
    /\ raised' = exc
    /\ exc' = None
    /\ pc' = "done"
    /\ UNCHANGED <<results, i>>
    /\ CallerFrame

\* except Exception as e: print(f"Retry failed: {e}")
RetryCatch ==
    /\ cmd = "retry"
    /\ pc = "raise"
    /\ exc' = None
    /\ pc' = "retry_loop"
    /\ UNCHANGED <<results, raised, i>>
    /\ CallerFrame

Next ==
    \/ Run
    \/ CreateJob
    \/ UpdateGenerating
    \/ Generate
    \/ UpdateRendering
    \/ Render
    \/ UpdateMixing
    \/ Mix
    \/ UpdateComposing
    \/ Compose
    \/ Thumbnail
    \/ UploadBranch
    \/ Upload
    \/ Complete
    \/ Cleanup
    \/ HandleException
    \/ RunReturn
    \/ RunRaise
    \/ RunBatch
    \/ BatchLoop
    \/ BatchAppend
    \/ BatchCatch
    \/ RetryFailedJobs
    \/ RetryLoop
    \/ RetryAppend
    \/ RetryCatch

Spec == Init /\ [][Next]_vars

\* The process goes on with whatever it is doing: an operation under way
\* takes its next step.
SpecLive == Spec /\ WF_vars(Next)

\* ------------------------------------------------- run, stories and settings
\* The operator invokes run only; the process was started with any of the
\* settings files, and the generator answers with any number of messages.
InitMedia ==
    /\ Idle /\ NoUpload /\ NoScheduler
    /\ config \in Configs /\ assets \in Assets /\ arg = <<>>

NextMedia ==
    \/ RunAnyMusic
    \/ CreateJob
    \/ UpdateGenerating
    \/ GenerateAny
    \/ UpdateRendering
    \/ Render
    \/ UpdateMixing
    \/ Mix
    \/ UpdateComposing
    \/ Compose
    \/ Thumbnail
    \/ UploadBranch
    \/ Upload
    \/ Complete
    \/ Cleanup
    \/ HandleException
    \/ RunReturn
    \/ RunRaise

SpecMedia == InitMedia /\ [][NextMedia]_vars

\* --------------------------------------------- functions applied on their own
MaxCount == 50      \* num_messages given to the timing functions
MaxStory == 4       \* messages of the stories rendered and composed
MaxLongStory == 5001  \* messages of the long story rendered

\* Everything of the orchestrator at rest.
AtRest ==
    UNCHANGED <<jobs_dir_exists, store, job, pc, cmd, optUpload, upload,
                music_path, theme, audio_path, count, themes, i, failed_jobs, results,
                exc, raised, config, assets, Disk, Locals, hist, calls, runs, base,
                failedAtStart, failures, Uploader, Sched>>

\* Messages and stories a job can carry: with and without timestamp,
\* reactions, description and tags; no, one or two messages.
InputMessages ==
    {Message("ChaosGremlin", "bruh", "#5865F2", None, <<>>),
     Message("DefinitelyNotSus", "WHAT", "#57F287", "Today at 4:20 PM",
             <<"skull", "joy">>)}

InputStories ==
    {Story("title", "AITA", messages, description, tags) :
        messages \in {<<>>} \cup {<<m>> : m \in InputMessages}
                        \cup {<<m, n>> : m \in InputMessages,
                                          n \in InputMessages},
        description \in {"", "description"},
        tags \in {<<>>, <<"shorts", "discord">>}}

\* Jobs in every status, with and without story and the other optionals.
InputJobs ==
    {[id |-> 1, theme |-> th, status |-> st, story |-> story,
      video_path |-> artifact[1], thumbnail_path |-> artifact[2],
      youtube_id |-> artifact[3], error |-> err, created_at |-> 1,
      completed_at |-> done] :
        th \in {None, "AITA"}, st \in JobStatus,
        story \in {NoStory} \cup InputStories,
        artifact \in {<<None, None, None>>,
                      <<"video.mp4", "thumbnail.png", "video_id">>},
        err \in {None, "compose error"}, done \in {None, Now}}

\* Target ranges (seconds) on both sides of the clamps, the default one
\* included.
TargetRanges == {<<0, 0>>, <<1, 3>>, <<10, 20>>, <<30, 59>>, <<120, 180>>}

\* Message and typing durations in ms.
InputDurations == {0, 1, 800, 1500, 3000}

\* The audio handed to the composer: none, or a file shorter than the
\* video, as long, longer.
InputAudio ==
    {NoAudio} \cup {AudioFile(l) : l \in {1, 700, 1500, 2300, 3800, 20000}}

\* The (message, typing) durations in ms handed to the composer: the
\* defaults of the config and the calculator's upper clamps.
InputTimingPairs == {<<1500, 800>>, <<3000, 1000>>, <<1000, 400>>}

\* random.random(), in thousandths: a number of [0, 1).
RandomThousandths == {0, 500, 999}

\* run_daily's videos_per_day, at most.
MaxPerDay == 3

\* Times of day in seconds since midnight: from 00:00:00 to 22:59:59, the
\* last minutes and seconds before 23:00 among them.
ClockTimes == {0, 43200, 75600, 79200, 82500, 82680, 82740, 82770, 82799}

\* end_of_day = now.replace(hour=23, minute=0, second=0), in seconds since
\* midnight.
end_of_day == 23 * 3600

\* random.uniform(a, b) = a + (b - a) * random.random(), in ms, where r is
\* random.random() in thousandths: a + ((b - a) * r) \div 1000, the product
\* taken by parts to stay within 32 bits.
uniform(a, b, r) ==
    a + ((b - a) \div 1000) * r + (((b - a) % 1000) * r) \div 1000

\* run_daily, with fewer than videos_per_day uploaded and before 23:00:
\*   remaining_videos = videos_per_day - self.videos_uploaded_today
\*   remaining_seconds = (end_of_day - now).total_seconds()
\*   max_delay = remaining_seconds / remaining_videos
\*   delay = random.uniform(60, min(max_delay, 3600))
\* The delay in ms.
daily_delay(now, per_day, uploaded_today, r) ==
    LET remaining_videos == per_day - uploaded_today
        remaining_seconds == end_of_day - now
        max_delay == (remaining_seconds * 1000) \div remaining_videos
    IN  uniform(60 * 1000, Min(max_delay, 3600 * 1000), r)

InputCalls ==
    {[job |-> j] : j \in InputJobs}
    \cup {[num_messages |-> n, min_duration |-> r[1], max_duration |-> r[2]] :
              n \in 1 .. MaxCount, r \in TargetRanges}
    \cup {[num_messages |-> n, message_duration_ms |-> d,
            typing_duration_ms |-> t, skip_first |-> b] :
              n \in 1 .. MaxCount, d \in InputDurations,
              t \in InputDurations, b \in BOOLEAN}
    \cup {[story |-> GeneratedStory(n), include_typing |-> b] :
              n \in (1 .. MaxStory) \cup {MaxLongStory}, b \in BOOLEAN}
    \cup {[frame_paths |-> render_all_frames(GeneratedStory(n), b),
            audio |-> a, message_duration |-> d[1],
            typing_duration |-> d[2]] :
              n \in 1 .. MaxStory, b \in BOOLEAN, a \in InputAudio,
              d \in InputTimingPairs}
    \cup {[duration_ms |-> d, music_path |-> m, sfx_timestamps_ms |-> ts,
            output_path |-> o, assets |-> a, notification_sound |-> b] :
              d \in {0, 2300, 4600}, m \in MusicPaths,
              ts \in {<<>>, <<2300>>, <<2300, 4600>>},
              o \in {None, "audio.mp3"}, a \in Assets, b \in BOOLEAN}
    \cup {[now |-> t, videos_per_day |-> n, videos_uploaded_today |-> u,
            random |-> r] :
              t \in ClockTimes, n \in 1 .. MaxPerDay,
              u \in 0 .. MaxPerDay - 1, r \in RandomThousandths}

InitCalls ==
    /\ Idle /\ NoUpload /\ NoScheduler
    /\ config = DefaultConfig /\ assets = DefaultAssets /\ arg \in InputCalls

\* PipelineJob.from_dict(job.to_dict())
RoundTrip ==
    /\ fn = "none"
    /\ "job" \in DOMAIN arg
    /\ fn' = "from_dict(to_dict)"
    /\ ret' = from_dict(to_dict(arg.job))
    /\ UNCHANGED <<arg, status_filter, created>>
    /\ AtRest

\* VideoComposer._calculate_durations(story) under a configured range
CalculateDurations ==
    /\ fn = "none"
    /\ "min_duration" \in DOMAIN arg
    /\ fn' = "_calculate_durations"
    /\ ret' = calculate_durations(arg.num_messages, arg.min_duration,
                                  arg.max_duration)
    /\ UNCHANGED <<arg, status_filter, created>>
    /\ AtRest

\* AudioMixer.calculate_sfx_timestamps(...)
CalculateSfxTimestamps ==
    /\ fn = "none"
    /\ "skip_first" \in DOMAIN arg
    /\ fn' = "calculate_sfx_timestamps"
    /\ ret' = calculate_sfx_timestamps(arg.num_messages,
                   arg.message_duration_ms, arg.typing_duration_ms,
                   arg.skip_first)
    /\ UNCHANGED <<arg, status_filter, created>>
    /\ AtRest

\* DiscordRenderer.render_all_frames(story, output_dir, include_typing)
RenderAllFrames ==
    /\ fn = "none"
    /\ "include_typing" \in DOMAIN arg
    /\ fn' = "render_all_frames"
    /\ ret' = render_all_frames(arg.story, arg.include_typing)
    /\ UNCHANGED <<arg, status_filter, created>>
    /\ AtRest

\* VideoComposer.compose_from_frames(frame_paths, output_path, audio_path,
\* message_duration, typing_duration)
ComposeFromFrames ==
    /\ fn = "none"
    /\ "frame_paths" \in DOMAIN arg
    /\ fn' = "compose_from_frames"
    /\ ret' = compose_from_frames(arg.frame_paths, arg.audio,
                  arg.message_duration, arg.typing_duration)
    /\ UNCHANGED <<arg, status_filter, created>>
    /\ AtRest

\* AudioMixer.mix_for_video(duration_ms, music_path, sfx_timestamps_ms,
\* output_path)
MixForVideo ==
    /\ fn = "none"
    /\ "sfx_timestamps_ms" \in DOMAIN arg
    /\ fn' = "mix_for_video"
    /\ ret' = mix_for_video(arg.duration_ms, arg.music_path,
                  arg.sfx_timestamps_ms, arg.output_path, arg.assets,
                  arg.notification_sound)
    /\ UNCHANGED <<arg, status_filter, created>>
    /\ AtRest

\* run_daily's choice of the delay before the next video
DailyDelay ==
    /\ fn = "none"
    /\ "videos_per_day" \in DOMAIN arg
    /\ arg.videos_uploaded_today < arg.videos_per_day
    /\ end_of_day - arg.now > 0
    /\ fn' = "daily_delay"
    /\ ret' = daily_delay(arg.now, arg.videos_per_day,
                          arg.videos_uploaded_today, arg.random)
    /\ UNCHANGED <<arg, status_filter, created>>
    /\ AtRest

NextCalls ==
    \/ RoundTrip
    \/ CalculateDurations
    \/ CalculateSfxTimestamps
    \/ RenderAllFrames
    \/ ComposeFromFrames
    \/ MixForVideo
    \/ DailyDelay

SpecCalls == InitCalls /\ [][NextCalls]_vars

\* ------------------------------------- YouTubeUploader._resumable_upload
\* Maximum retries for resumable uploads
MAX_RETRIES == 10

\* Retry status codes
RETRIABLE_STATUS_CODES == {500, 502, 503, 504}

\* The statuses of the HTTP errors the server answers a chunk with.
StatusCodes == RETRIABLE_STATUS_CODES \cup {400, 403}

\* The chunks of the largest upload considered.
MaxChunks == 3

\* random.random() * (2 ** retry), in ms
backoff(r, n) == r * 2 ^ n

\* Mutant: the loop gives up when the limit is reached, not exceeded.
give_up_at_limit(n) == n >= MAX_RETRIES

\* if retry > self.MAX_RETRIES
give_up(n) == n > MAX_RETRIES

\* An upload of 1..MaxChunks chunks is about to be sent.
InitUpload ==
    /\ Idle /\ NoScheduler
    /\ config = DefaultConfig /\ assets = DefaultAssets /\ arg = <<>>
    /\ response = None
    /\ error = None
    /\ retry = 0
    /\ sleep_seconds = 0
    /\ transient_errors = 0
    /\ chunks \in 1 .. MaxChunks

\* What _resumable_upload leaves alone.
UploadFrame ==
    UNCHANGED <<jobs_dir_exists, store, job, cmd, optUpload, upload,
                music_path, theme, audio_path, count, themes, i, failed_jobs,
                results, exc, raised, config, assets, Disk, Locals, hist,
                calls, runs, base, failedAtStart, failures, arg,
                status_filter, created, Sched>>

\* What the call hands back: its return value, or the exception it raised.
Returned(v) == [raised |-> None, value |-> v]

Reraised(status) == [raised |-> "HttpError", status |-> status]

\* response = None; error = None; retry = 0
ResumableUpload ==
    /\ pc = "done"
    /\ fn = "none"
    /\ response' = None
    /\ error' = None
    /\ retry' = 0
    /\ pc' = "while"
    /\ UNCHANGED <<fn, ret, sleep_seconds, chunks, transient_errors>>
    /\ UploadFrame

\* while response is None: ... ; return response
WhileResponseIsNone ==
    /\ pc = "while"
    /\ IF response = None
         THEN /\ pc' = "next_chunk"
              /\ UNCHANGED <<fn, ret>>
         ELSE /\ fn' = "_resumable_upload"
              /\ ret' = Returned(response)
              /\ pc' = "done"
    /\ UNCHANGED Uploader
    /\ UploadFrame

\* try: status, response = request.next_chunk()
\* except HttpError as e: error = ... if e.resp.status in
\*     RETRIABLE_STATUS_CODES, else: raise
\* except Exception as e: error = ...
\* A chunk that is received is one chunk fewer to send; the last one is
\* answered with the response.
NextChunk ==
    /\ pc = "next_chunk"
    /\ \/ /\ chunks' = chunks - 1
          /\ response' = IF chunks' = 0 THEN "response" ELSE None
          /\ pc' = "if_error"
          /\ UNCHANGED <<fn, ret, error, transient_errors>>
       \/ \E status \in StatusCodes :
             IF status \in RETRIABLE_STATUS_CODES
               THEN /\ error' = "Retriable HTTP error"
                    /\ transient_errors' = transient_errors + 1
                    /\ pc' = "if_error"
                    /\ UNCHANGED <<fn, ret, response, chunks>>
               ELSE /\ fn' = "_resumable_upload"
                    /\ ret' = Reraised(status)
                    /\ pc' = "done"
                    /\ UNCHANGED <<response, error, chunks, transient_errors>>
       \/ /\ error' = "Error during upload"
          /\ transient_errors' = transient_errors + 1
          /\ pc' = "if_error"
          /\ UNCHANGED <<fn, ret, response, chunks>>
    /\ UNCHANGED <<retry, sleep_seconds>>
    /\ UploadFrame

\* if error: retry += 1; if retry > MAX_RETRIES: return None;
\*     sleep_seconds = random.random() * (2 ** retry); time.sleep(...);
\*     error = None
IfError ==
    /\ pc = "if_error"
    /\ IF error # None
         THEN /\ retry' = retry + 1
              /\ IF give_up(retry')
                   THEN /\ fn' = "_resumable_upload"
                        /\ ret' = Returned(None)
                        /\ pc' = "done"
                        /\ UNCHANGED <<error, sleep_seconds>>
                   ELSE /\ \E r \in RandomThousandths :
                              sleep_seconds' = backoff(r, retry')
                        /\ error' = None
                        /\ pc' = "while"
                        /\ UNCHANGED <<fn, ret>>
         ELSE /\ pc' = "while"
              /\ UNCHANGED <<fn, ret, error, retry, sleep_seconds>>
    /\ UNCHANGED <<response, chunks, transient_errors>>
    /\ UploadFrame

NextUpload ==
    \/ ResumableUpload
    \/ WhileResponseIsNone
    \/ NextChunk
    \/ IfError

\* The process runs: a step that can be taken is taken.
SpecUpload == InitUpload /\ [][NextUpload]_vars /\ WF_vars(NextUpload)

\* --------------------------------------------------------------- Scheduler
\* main: run_interval by default, run_daily with --daily, run_at_times
\* with --times.
Modes == {"interval", "daily", "times"}

\* The most calls of time.sleep(60) a wait of run_interval or run_daily
\* takes.
MaxSleep == 2

\* _get_random_theme(): random.choice of the configured themes, of which
\* one is enough here: the loops do not look at the theme.
SchedulerThemes == {"AITA"}

\* The clock shows DayLen times of day, 0 .. DayLen - 1; at the last of
\* them it is past 23:00.
DayLen == 3

LateTime == DayLen - 1

\* It is past 23:00.
late == tick >= LateTime

\* --times, as times of day: in any order, one or several.
InputTimes == {<<1>>, <<2, 0>>, <<0, 1, 2>>}

\* scheduled_times.sort()
sorted(ts) == SortSeq(ts, LAMBDA a, b : a < b)

\* A moment as <<day, time of day>>, the day counted from today: 1 is
\* tomorrow, -1 any day before today.
Moment(day, time) == <<day, time>>

\* scheduled > now, for moments
Later(a, b) == a[1] > b[1] \/ (a[1] = b[1] /\ a[2] > b[2])

\* The clock has reached the moment m: time.time() >= sleep_until.
Reached(m) == ~Later(m, Moment(0, tick))

\* A moment, seen from the next day.
DayAfter(m) == IF m = <<>> THEN m ELSE Moment(Max(m[1] - 1, -1), m[2])

\* Mutant: the time that is now counts as still to come.
find_next_time_not_strict(t, ts) ==
    LET later == SelectSeq(ts, LAMBDA s : s >= t)
    IN  IF later # <<>> THEN Moment(0, later[1]) ELSE Moment(1, ts[1])

\* run_at_times: next_time = None;
\* for hour, minute in scheduled_times:
\*     scheduled = now.replace(hour=hour, minute=minute, ...)
\*     if scheduled > now: next_time = scheduled; break
\* if next_time is None: next_time = scheduled_times[0], tomorrow
find_next_time(t, ts) ==
    LET later == SelectSeq(ts, LAMBDA s : s > t)
    IN  IF later # <<>> THEN Moment(0, later[1]) ELSE Moment(1, ts[1])

\* Scheduler(): running, no video today; then main enters the loop of the
\* mode asked for, run_at_times after sorting the times.
InitScheduler ==
    /\ Idle /\ NoUpload
    /\ config = DefaultConfig /\ assets = DefaultAssets /\ arg = <<>>
    /\ running = TRUE
    /\ mode \in Modes
    /\ videos_per_day = IF mode = "daily" THEN 1 ELSE 0
    /\ spc = "while"
    /\ videos_uploaded_today = 0
    /\ last_reset_date = "today"
    /\ tick \in 0 .. DayLen - 1
    /\ scheduled_times \in
          IF mode = "times" THEN {sorted(ts) : ts \in InputTimes} ELSE {<<>>}
    /\ next_time = <<>>
    /\ started_for = <<>>
    /\ started_today = 0
    /\ sleep_left = 0
    /\ returned = <<>>

\* What the scheduler's own statements leave alone.
SchedulerFrame ==
    UNCHANGED <<jobs_dir_exists, store, job, pc, cmd, optUpload, upload,
                music_path, theme, audio_path, count, themes, i, failed_jobs,
                results, exc, raised, config, assets, Disk, Locals, hist,
                calls, runs, base, failedAtStart, failures, status_filter,
                created, fn, arg, ret, Uploader>>

\* _handle_shutdown(signum, frame): self.running = False, at any moment.
HandleShutdown ==
    /\ spc \notin {"none", "stopped", "crashed"}
    /\ running
    /\ running' = FALSE
    /\ UNCHANGED <<mode, spc, videos_uploaded_today, videos_per_day,
                   last_reset_date, Clock, sleep_left, returned>>
    /\ SchedulerFrame

\* The clock while the scheduler is at the head of its loop or waits: the
\* next time of day comes, and after the last one midnight: the date is no
\* longer the one of the last reset, no job was started today, and what
\* was today is yesterday.
TimePasses ==
    /\ spc \in {"while", "sleep_then_run", "sleep_then_loop"}
    /\ tick' = (tick + 1) % DayLen
    /\ IF tick' = 0
         THEN /\ last_reset_date' = "earlier"
              /\ started_today' = 0
              /\ next_time' = DayAfter(next_time)
              /\ started_for' = DayAfter(started_for)
         ELSE UNCHANGED <<last_reset_date, started_today, next_time,
                          started_for>>
    /\ UNCHANGED <<running, mode, spc, videos_uploaded_today, videos_per_day,
                   scheduled_times, sleep_left, returned>>
    /\ SchedulerFrame

\* while self.running: of the three loops, up to the wait or the call of
\* run_once; "Scheduler stopped" when the flag is down.
\* run_interval and run_daily reset the daily counter on a new date;
\* run_daily waits a random delay before the next video while fewer than
\* videos_per_day were uploaded and it is before 23:00, does nothing when
\* it is later, and sleeps until midnight when done for today; run_at_times
\* waits until the next scheduled time.
While ==
    /\ spc = "while"
    /\ IF ~running
         THEN /\ spc' = "stopped"
              /\ UNCHANGED <<videos_uploaded_today, last_reset_date,
                             sleep_left, next_time>>
         ELSE LET today ==
                      IF mode # "times" /\ last_reset_date = "earlier"
                        THEN 0 ELSE videos_uploaded_today
              IN  /\ videos_uploaded_today' = today
                  /\ last_reset_date' =
                        IF mode # "times" THEN "today" ELSE last_reset_date
                  /\ CASE mode = "interval" ->
                            /\ spc' = "run_once"
                            /\ UNCHANGED <<sleep_left, next_time>>
                       [] mode = "daily" ->
                            /\ IF today < videos_per_day
                                 THEN IF ~late
                                        THEN /\ sleep_left' \in 1 .. MaxSleep
                                             /\ spc' = "sleep_then_run"
                                        ELSE /\ spc' = "no_time_left"
                                             /\ UNCHANGED sleep_left
                                 ELSE /\ sleep_left' \in 1 .. MaxSleep
                                      /\ spc' = "sleep_then_loop"
                            /\ UNCHANGED next_time
                       [] mode = "times" ->
                            /\ next_time' =
                                  find_next_time(tick, scheduled_times)
                            /\ spc' = "sleep_then_run"
                            /\ UNCHANGED sleep_left
    /\ UNCHANGED <<running, mode, videos_per_day, tick, scheduled_times,
                   started_for, started_today, returned>>
    /\ SchedulerFrame

\* run_daily past 23:00 with videos still to upload:
\* `if remaining_seconds > 0:` fails and the iteration ends there.
NoTimeLeft ==
    /\ spc = "no_time_left"
    /\ spc' = "while"
    /\ UNCHANGED <<running, mode, videos_uploaded_today, videos_per_day,
                   last_reset_date, Clock, sleep_left, returned>>
    /\ SchedulerFrame

\* while time.time() < sleep_until and self.running: time.sleep(60)
\* run_interval and run_daily wait sleep_left calls of time.sleep;
\* run_at_times sleeps on until the clock has reached next_time.
Sleep ==
    /\ spc \in {"sleep_then_run", "sleep_then_loop"}
    /\ LET due == IF mode = "times" THEN Reached(next_time)
                                    ELSE sleep_left = 0
       IN  IF ~due /\ running
             THEN /\ mode # "times"
                  /\ sleep_left' = sleep_left - 1
                  /\ UNCHANGED spc
             ELSE /\ spc' = IF spc = "sleep_then_run" THEN "if_running"
                                                      ELSE "while"
                  /\ UNCHANGED sleep_left
    /\ UNCHANGED <<running, mode, videos_uploaded_today, videos_per_day,
                   last_reset_date, Clock, returned>>
    /\ SchedulerFrame

\* Mutant: run_once is called after the wait whatever the flag says.
IfRunning_unchecked ==
    /\ spc = "if_running"
    /\ spc' = "run_once"
    /\ UNCHANGED <<running, mode, videos_uploaded_today, videos_per_day,
                   last_reset_date, Clock, sleep_left, returned>>
    /\ SchedulerFrame

\* run_daily, run_at_times: if self.running: self.run_once()
IfRunning ==
    /\ spc = "if_running"
    /\ spc' = IF running THEN "run_once" ELSE "while"
    /\ UNCHANGED <<running, mode, videos_uploaded_today, videos_per_day,
                   last_reset_date, Clock, sleep_left, returned>>
    /\ SchedulerFrame

\* run_once: theme = self._get_random_theme();
\*           job = self.pipeline.run(theme=theme, upload=True)
RunOnce ==
    /\ spc = "run_once"
    /\ pc = "done"
    /\ Len(store) < MaxJobs
    /\ spc' = "in_run_once"
    /\ started_today' = started_today + 1
    /\ started_for' = next_time
    /\ cmd' = "run"
    /\ theme' \in SchedulerThemes
    /\ upload' = TRUE
    /\ optUpload' = TRUE
    /\ music_path' = None
    /\ job' = NoJob
    /\ results' = <<>>
    /\ exc' = None
    /\ raised' = None
    /\ audio_path' = None
    /\ hist' = <<>>
    /\ calls' = <<>>
    /\ runs' = <<>>
    /\ base' = Len(store)
    /\ count' = 0
    /\ themes' = <<>>
    /\ i' = 0
    /\ failed_jobs' = <<>>
    /\ failedAtStart' = {}
    /\ pc' = "create"
    /\ UNCHANGED <<running, mode, videos_uploaded_today, videos_per_day,
                   last_reset_date, tick, scheduled_times, next_time,
                   sleep_left, returned>>
    /\ UNCHANGED <<jobs_dir_exists, store, failures, config, assets, Disk,
                   Locals, status_filter, created, fn, arg, ret, Uploader>>

\* Mutant: run_once had no except clause.
RunOnceEnd_uncaught ==
    /\ spc = "in_run_once"
    /\ pc = "done"
    /\ IF raised # None
         THEN /\ spc' = "crashed"
              /\ UNCHANGED <<returned, videos_uploaded_today>>
         ELSE /\ returned' = <<results[1].youtube_id # None>>
              /\ videos_uploaded_today' =
                    IF results[1].youtube_id # None
                      THEN videos_uploaded_today + 1
                      ELSE videos_uploaded_today
              /\ spc' = IF mode = "interval" THEN "if_not_running"
                                             ELSE "while"
    /\ UNCHANGED <<running, mode, videos_per_day, last_reset_date, Clock,
                   sleep_left>>
    /\ SchedulerFrame

\* run_once: if job.youtube_id: self.videos_uploaded_today += 1; return
\* True; else: return False; except Exception: log it; return False.  The
\* loop then goes on: run_interval to its test of the flag, the others to
\* the head of the loop.
RunOnceEnd ==
    /\ spc = "in_run_once"
    /\ pc = "done"
    /\ IF raised # None
         THEN /\ returned' = <<FALSE>>
              /\ UNCHANGED videos_uploaded_today
         ELSE /\ returned' = <<results[1].youtube_id # None>>
              /\ videos_uploaded_today' =
                    IF results[1].youtube_id # None
                      THEN videos_uploaded_today + 1
                      ELSE videos_uploaded_today
    /\ spc' = IF mode = "interval" THEN "if_not_running" ELSE "while"
    /\ UNCHANGED <<running, mode, videos_per_day, last_reset_date, Clock,
                   sleep_left>>
    /\ SchedulerFrame

\* run_interval: if not self.running: break; then the wait of
\* interval_seconds.
IfNotRunning ==
    /\ spc = "if_not_running"
    /\ IF ~running
         THEN /\ spc' = "stopped"
              /\ UNCHANGED sleep_left
         ELSE /\ sleep_left' \in 1 .. MaxSleep
              /\ spc' = "sleep_then_loop"
    /\ UNCHANGED <<running, mode, videos_uploaded_today, videos_per_day,
                   last_reset_date, Clock, returned>>
    /\ SchedulerFrame

\* The steps of the scheduler process, the pipeline run included.
SchedulerStep ==
    \/ While
    \/ NoTimeLeft
    \/ Sleep
    \/ IfRunning
    \/ RunOnce
    \/ CreateJob
    \/ UpdateGenerating
    \/ Generate
    \/ UpdateRendering
    \/ Render
    \/ UpdateMixing
    \/ Mix
    \/ UpdateComposing
    \/ Compose
    \/ Thumbnail
    \/ UploadBranch
    \/ Upload
    \/ Complete
    \/ Cleanup
    \/ HandleException
    \/ RunReturn
    \/ RunRaise
    \/ RunOnceEnd
    \/ IfNotRunning

NextScheduler ==
    \/ SchedulerStep
    \/ HandleShutdown
    \/ TimePasses

\* The process runs and time passes; a signal may never come.  The loop of
\* run_daily turns without waiting after 23:00, far faster than the clock:
\* the clock moves on all the same, and the loop does not miss the whole of
\* the next day.
SpecScheduler ==
    /\ InitScheduler
    /\ [][NextScheduler]_vars
    /\ WF_vars(SchedulerStep)
    /\ SF_vars(TimePasses)
    /\ SF_vars(While /\ spc' = "sleep_then_run")

\* ------------------------------------------------- operations on the store
\* str(uuid.uuid4())[:8]: one of 16^8 identifiers, drawn at random.  Here
\* one of MaxJobs.
JobIds == 1 .. MaxJobs

\* The name of a file of jobs_dir that create_job did not write.
ForeignId == 0

\* What such a file can hold.  Records that do not load: a file cut short
\* (save writes in place, json.load raises), a status that is none of the
\* enum's values (JobStatus(...) raises ValueError), no id (KeyError), a
\* story without messages (KeyError in Story.from_dict).  Records that
\* load: a failed job as old as the first job created here, and a record of
\* id and status alone, whose other fields take from_dict's defaults.
UnreadableFiles ==
    {[truncated |-> TRUE],
     [id |-> ForeignId, status |-> "cancelled", created_at |-> 1],
     [status |-> "failed", created_at |-> 1],
     [id |-> ForeignId, status |-> "failed", created_at |-> 1,
      story |-> [title |-> "title", theme |-> "AITA"]]}

ReadableFiles ==
    {to_dict([PipelineJob(ForeignId, None, 1) EXCEPT
                  !.status = FAILED, !.error = "compose error"]),
     [id |-> ForeignId, status |-> "failed"]}

\* jobs_dir when the process starts: absent, empty, or holding one file.
StoresAtStart ==
    {[exists |-> FALSE, files |-> <<>>], [exists |-> TRUE, files |-> <<>>]}
    \cup {[exists |-> TRUE, files |-> [k \in {ForeignId} |-> f]] :
              f \in UnreadableFiles \cup ReadableFiles}

InitStore ==
    /\ \E s \in StoresAtStart :
          /\ jobs_dir_exists = s.exists
          /\ store = s.files
    /\ job = NoJob
    /\ pc = "done"
    /\ cmd = "none"
    /\ optUpload = TRUE
    /\ upload = TRUE
    /\ theme = None
    /\ audio_path = None
    /\ count = 0
    /\ themes = <<>>
    /\ i = 0
    /\ failed_jobs = <<>>
    /\ results = <<>>
    /\ exc = None
    /\ raised = None
    /\ hist = <<>>
    /\ calls = <<>>
    /\ runs = <<>>
    /\ base = 0
    /\ failedAtStart = {}
    /\ failures = 0
    /\ frame_paths = <<>>
    /\ message_duration = 0
    /\ typing_duration = 0
    /\ total_duration_ms = 0
    /\ sfx_timestamps = <<>>
    /\ clips = <<>>
    /\ status_filter = None
    /\ created = <<>>
    /\ fn = "none"
    /\ ret = <<>>
    /\ music_path = None
    /\ tmp = {}
    /\ published = {}
    /\ config = DefaultConfig
    /\ assets = DefaultAssets
    /\ arg = <<>>
    /\ NoUpload
    /\ NoScheduler

\* What the operations on the store leave alone.
StoreFrame ==
    UNCHANGED <<pc, optUpload, upload, music_path, theme, audio_path, count, themes, i,
                exc, raised, config, assets, Disk, Locals, hist, calls, runs, base,
                failedAtStart, failures, fn, arg, ret, Uploader, Sched>>

\* The statuses _update_job is given here: one the pipeline passes
\* through, and the two it ends in.
StatusesGiven == {GENERATING_STORY, COMPLETED, FAILED}

\* create_job(theme): job_id = str(uuid.uuid4())[:8]; the job is saved under
\* it, whether or not a file of that name exists.  The creation time is the
\* number of the creation.
CreateJobAnyId ==
    /\ Len(created) < MaxJobs
    /\ \E id \in JobIds :
          job' = PipelineJob(id, None, Len(created) + 1)
    /\ store' = save(store, job')
    /\ jobs_dir_exists' = TRUE
    /\ created' = Append(created, job')
    /\ cmd' = "create_job"
    /\ results' = <<>>
    /\ failed_jobs' = <<>>
    /\ UNCHANGED status_filter
    /\ StoreFrame

\* _update_job(job, status) on the job create_job returned last.
UpdateJob ==
    /\ created # <<>>
    /\ \E st \in StatusesGiven : job' = update_job(job, st)
    /\ store' = save(store, job')
    /\ jobs_dir_exists' = TRUE
    /\ cmd' = "_update_job"
    /\ results' = <<>>
    /\ failed_jobs' = <<>>
    /\ UNCHANGED <<status_filter, created>>
    /\ StoreFrame

\* list_jobs(status), glob yielding the files in any order.
ListJobs ==
    /\ \E st \in {None} \cup JobStatus :
          /\ status_filter' = st
          /\ \E paths \in Glob(store) :
                results' = list_jobs(jobs_dir_exists, store, st, paths)
    /\ cmd' = "list_jobs"
    /\ failed_jobs' = <<>>
    /\ UNCHANGED <<jobs_dir_exists, store, job, created>>
    /\ StoreFrame

\* retry_failed_jobs: failed_jobs = self.list_jobs(status=JobStatus.FAILED);
\* results = [].  The runs that follow are those of Spec.
RetryListFailed ==
    /\ \E paths \in Glob(store) :
          failed_jobs' = list_jobs(jobs_dir_exists, store, FAILED, paths)
    /\ cmd' = "retry_failed_jobs"
    /\ results' = <<>>
    /\ UNCHANGED <<jobs_dir_exists, store, job, created, status_filter>>
    /\ StoreFrame

NextStore ==
    \/ CreateJobAnyId
    \/ UpdateJob
    \/ ListJobs
    \/ RetryListFailed

SpecStore == InitStore /\ [][NextStore]_vars

\* ================================================================ claims
\* The job that loading the record k of the store gives.
Loaded(k) == from_dict(store[k])

\* JobStatus(data['status']) of the record k of the store.
StatusOf(k) == JobStatusFromValue(store[k].status)

\* The job's persisted record.
Record == store[job.id]

\* run_job is executing (between its first statement and its return/raise).
InRunJob ==
    pc \in {"update_generating", "generate", "update_rendering", "render",
            "update_mixing", "mix", "update_composing", "compose",
            "thumbnail", "upload_branch", "upload", "complete", "cleanup",
            "except", "return", "raise"}

\* run_job has ended, by return or by raise.
RunJobEnded == pc \in {"return", "raise"}

\* The stages the current run_job has to call, given its upload parameter.
StagesToRun == IF upload THEN StageOrder ELSE SubSeq(StageOrder, 1, 5)

\* Every stage of the current run_job was called and returned normally.
EveryStageSucceeded ==
    /\ Len(calls) = Len(StagesToRun)
    /\ \A k \in 1 .. Len(calls) : calls[k].ok

SomeStageRaised == \E k \in 1 .. Len(calls) : ~calls[k].ok

StatusesOfSuccess ==
    IF upload
      THEN <<PENDING, GENERATING_STORY, RENDERING_FRAMES, MIXING_AUDIO,
             COMPOSING_VIDEO, UPLOADING, COMPLETED>>
      ELSE <<PENDING, GENERATING_STORY, RENDERING_FRAMES, MIXING_AUDIO,
             COMPOSING_VIDEO, COMPLETED>>

\* C1: for a job created by Pipeline.run (directly or from run_batch) whose
\* every stage succeeded, the statuses written to its record are, when
\* run_job ends, exactly PENDING, GENERATING_STORY, RENDERING_FRAMES,
\* MIXING_AUDIO, COMPOSING_VIDEO, UPLOADING (only with upload), COMPLETED,
\* and without upload the publisher was not called.
C1_StatusSequence ==
    (cmd \in {"run", "batch"} /\ RunJobEnded /\ EveryStageSucceeded)
        => /\ hist = StatusesOfSuccess
           /\ (~upload => \A k \in 1 .. Len(calls) : calls[k].stage # "upload")

\* The stage whose call raised in the current run_job.
RaisedStage == calls[Len(calls)].stage

\* C2: when a stage raises, run_job saves the job as FAILED with the
\* exception's message as error and re-raises that exception: it ends by
\* raise with that message, never by return, and Pipeline.run hands the same
\* exception to its caller.
C2_FailurePersistedAndReraised ==
    /\ (InRunJob /\ SomeStageRaised)
          => /\ pc \in {"except", "raise"}
             /\ exc = ErrorMessage[RaisedStage]
    /\ (pc = "raise" /\ SomeStageRaised)
          => /\ StatusOf(job.id) = FAILED
             /\ Record.error = ErrorMessage[RaisedStage]
             /\ job.status = FAILED
    /\ pc = "return" => ~SomeStageRaised
    /\ (cmd = "run" /\ pc = "done" /\ SomeStageRaised)
          => raised = ErrorMessage[RaisedStage]

\* C2 witness: run_job is re-raising after the composer raised.
C2_Witness ==
    /\ pc = "raise"
    /\ SomeStageRaised
    /\ RaisedStage = "compose"
    /\ Record.error = "compose error"

StatusOfStage ==
    [generate |-> GENERATING_STORY, render |-> RENDERING_FRAMES,
     mix |-> MIXING_AUDIO, compose |-> COMPOSING_VIDEO,
     thumbnail |-> COMPOSING_VIDEO, upload |-> UPLOADING]

\* The status named after the last stage that has completed (PENDING
\* before any has).
StatusOfLastCompleted ==
    LET done == {k \in 1 .. Len(calls) : calls[k].ok}
    IN  IF done = {} THEN PENDING
        ELSE StatusOfStage[calls[CHOOSE k \in done : \A o \in done : o <= k].stage]

\* C4 as stated: at every instant of run_job the persisted status names the
\* last stage that has completed (or the terminal status), and every
\* artifact the job object holds is in the persisted record.
C4_StatusNamesLastCompleted ==
    InRunJob =>
        /\ StatusOf(job.id) \in {StatusOfLastCompleted, COMPLETED, FAILED}
        /\ Loaded(job.id).story = job.story
        /\ Record.video_path = job.video_path
        /\ Record.thumbnail_path = job.thumbnail_path
        /\ Record.youtube_id = job.youtube_id

\* The status the record shows while run_job is at pc: that of the stage
\* most recently begun.
StatusAt(p) ==
    CASE p = "update_generating" -> IF cmd = "retry" THEN FAILED ELSE PENDING
      [] p \in {"generate", "update_rendering"} -> GENERATING_STORY
      [] p \in {"render", "update_mixing"} -> RENDERING_FRAMES
      [] p \in {"mix", "update_composing"} -> MIXING_AUDIO
      [] p \in {"compose", "thumbnail", "upload_branch"} -> COMPOSING_VIDEO
      [] p = "upload" -> UPLOADING
      [] p = "complete" -> IF upload THEN UPLOADING ELSE COMPOSING_VIDEO
      [] p \in {"cleanup", "return"} -> COMPLETED
      [] p = "except" -> IF SomeStageRaised THEN StatusOfStage[RaisedStage]
                                            ELSE COMPLETED
      [] p = "raise" -> FAILED

\* C4 as amended: at every instant of run_job the persisted status names
\* the stage most recently begun (in progress or just ended), COMPLETED
\* once the last has ended and FAILED once the failure is handled; the
\* record holds every artifact except those produced since that status was
\* written: the story until RENDERING_FRAMES is written, the video path
\* and the thumbnail path until UPLOADING or COMPLETED (or FAILED) is
\* written, the published id until COMPLETED is written.
C4_StatusNamesStageBegun ==
    InRunJob =>
        /\ StatusOf(job.id) = StatusAt(pc)
        /\ Loaded(job.id).story = job.story \/ pc = "update_rendering"
        /\ \/ Record.video_path = job.video_path
           \/ pc \in {"thumbnail", "upload_branch"}
           \/ pc = "complete" /\ ~upload
           \/ pc = "except" /\ RaisedStage = "thumbnail"
        /\ \/ Record.thumbnail_path = job.thumbnail_path
           \/ pc = "upload_branch"
           \/ pc = "complete" /\ ~upload
        /\ Record.youtube_id = job.youtube_id \/ pc = "complete"
        /\ Record.id = job.id /\ Record.theme = job.theme

\* C4 witness: the thumbnail is being created; the record says
\* COMPOSING_VIDEO, a stage in progress, and lacks the video path the
\* composer has produced.
C4_Witness ==
    /\ pc = "thumbnail"
    /\ StatusOf(job.id) = COMPOSING_VIDEO
    /\ job.video_path # None
    /\ Record.video_path = None

\* C5: no record of the store has a status ahead of its artifacts:
\* RENDERING_FRAMES, MIXING_AUDIO, COMPOSING_VIDEO, UPLOADING and COMPLETED
\* come with the story, UPLOADING and COMPLETED with video and thumbnail
\* paths.
C5_StatusNotAheadOfArtifacts ==
    \A k \in DOMAIN store :
        /\ StatusOf(k) \in {RENDERING_FRAMES, MIXING_AUDIO, COMPOSING_VIDEO,
                                UPLOADING, COMPLETED}
              => store[k].story # NoStory
        /\ StatusOf(k) \in {UPLOADING, COMPLETED}
              => store[k].video_path # None /\ store[k].thumbnail_path # None

\* C5 witness: the record of a freshly created job says UPLOADING and holds
\* story, video path and thumbnail path.
C5_Witness ==
    /\ cmd = "run"
    /\ pc = "upload"
    /\ StatusOf(job.id) = UPLOADING
    /\ Record.story # NoStory
    /\ Record.video_path # None
    /\ Record.thumbnail_path # None

\* C6: COMPLETED is terminal and FAILED is entered only from a non-terminal
\* status: in the statuses written to a job's record nothing follows
\* COMPLETED, and FAILED follows neither COMPLETED nor FAILED.
C6_CompletedIsTerminal ==
    \A k \in 1 .. Len(hist) - 1 :
        /\ hist[k] # COMPLETED
        /\ hist[k + 1] = FAILED => hist[k] \notin {COMPLETED, FAILED}

\* The identifiers of the jobs the current operation created, in order.
CreatedIds == [k \in 1 .. (Len(store) - base) |-> base + k]

IsCompleted(id) == StatusOf(id) = COMPLETED

C8_BatchSequentialCyclicThemes ==
    cmd = "batch" =>
        /\ \A id \in 1 .. Len(store) - 1 :
              StatusOf(id) \in {COMPLETED, FAILED}
        /\ pc = "create" =>
              \A id \in DOMAIN store : StatusOf(id) \in {COMPLETED, FAILED}
        /\ \A id \in base + 1 .. Len(store) :
              store[id].theme =
                  IF Len(themes) > 0
                    THEN themes[((id - base - 1) % Len(themes)) + 1]
                    ELSE None

\* C8 witness: a batch has created more jobs than it has themes, so the
\* list has wrapped around, and the job before the newest has ended.
C8_Witness ==
    /\ cmd = "batch"
    /\ Len(themes) > 0
    /\ Len(store) - base > Len(themes)
    /\ store[Len(store)].theme = themes[1]
    /\ StatusOf(Len(store) - 1) \in {COMPLETED, FAILED}

\* The set of the elements of a sequence.
Range(seq) == {seq[k] : k \in 1 .. Len(seq)}

\* C9: retry_failed_jobs re-runs the jobs that were FAILED when it began and
\* no others, each once and under its identifier; each enters run_job as
\* PENDING with no error and is run from story generation whatever stage
\* had failed; when the re-run returns, the record is COMPLETED with a null
\* error.
C9_RetryReRunsFailedFromStart ==
    cmd = "retry" =>
        /\ Range(runs) \subseteq failedAtStart
        /\ Cardinality(Range(runs)) = Len(runs)
        /\ pc = "done" => Range(runs) = failedAtStart
        /\ Len(store) = base
        /\ pc = "update_generating" =>
              /\ job.status = PENDING
              /\ job.error = None
              /\ job.id \in failedAtStart
              /\ StatusOf(job.id) = FAILED
        /\ InRunJob /\ pc # "update_generating" =>
              /\ hist[1] = GENERATING_STORY
              /\ runs[Len(runs)] = job.id
        /\ InRunJob /\ calls # <<>> => calls[1].stage = "generate"
        /\ pc = "return" =>
              /\ StatusOf(job.id) = COMPLETED
              /\ Record.error = None
              /\ Record.id = job.id

\* C9 witness: the re-run of a job that was FAILED when the retry began has
\* gone through all six stages, from generate, and returned.
C9_Witness ==
    /\ cmd = "retry"
    /\ pc = "return"
    /\ job.id \in failedAtStart
    /\ Len(calls) = 6
    /\ StatusOf(job.id) = COMPLETED

\* C10: when the operator disables upload, a retried job never enters
\* UPLOADING and the publisher is not called for it.
C10_RetryHonoursUploadFlag ==
    (cmd = "retry" /\ ~optUpload) =>
        /\ \A k \in 1 .. Len(hist) : hist[k] # UPLOADING
        /\ \A k \in 1 .. Len(calls) : calls[k].stage # "upload"

\* C13: PipelineJob.from_dict(job.to_dict()) equals the job, field for
\* field, whatever its status and whether or not it has a story; the story
\* comes back with title, theme, description, tags and each message, in
\* order, with username, content, avatar colour, timestamp and reactions.
C13_JobRoundTrip ==
    fn = "from_dict(to_dict)" =>
        /\ ret = arg.job
        /\ \A f \in DOMAIN arg.job : ret[f] = arg.job[f]
        /\ arg.job.story # NoStory =>
              /\ Len(ret.story.messages) = Len(arg.job.story.messages)
              /\ \A k \in 1 .. Len(arg.job.story.messages) :
                    ret.story.messages[k] = arg.job.story.messages[k]

\* C13 witness: a job in the middle of the pipeline came back, its story of
\* two different messages, one with a timestamp and reactions.
C13_Witness ==
    /\ fn = "from_dict(to_dict)"
    /\ arg.job.status = MIXING_AUDIO
    /\ arg.job.story # NoStory
    /\ Len(arg.job.story.messages) = 2
    /\ arg.job.story.messages[1] # arg.job.story.messages[2]
    /\ ret.story.messages[2].reactions = <<"skull", "joy">>
    /\ ret.status = MIXING_AUDIO

\* C18: for n >= 1 messages and a target range [min_s, max_s],
\* _calculate_durations returns display = clamp(0.7 * ((min_s+max_s)/2) / n,
\* 1.0, 3.0) and typing = clamp(0.3 * ((min_s+max_s)/2) / n, 0.4, 1.0), so
\* display lies in [1.0, 3.0] and typing in [0.4, 1.0].  In ms, with the
\* quotients compared by cross-multiplication: 7 * target_ms against
\* display * 10 * n and 3 * target_ms against typing * 10 * n.
C18_DurationsClamped ==
    fn = "_calculate_durations" =>
        LET n == arg.num_messages
            target_ms == (arg.min_duration + arg.max_duration) * 500
            Clamped(x, share, lo, hi) ==
                /\ x >= lo /\ x <= hi
                /\ share * target_ms >= hi * 10 * n => x = hi
                /\ share * target_ms < lo * 10 * n => x = lo
                /\ (share * target_ms >= lo * 10 * n
                        /\ share * target_ms < hi * 10 * n) =>
                      /\ x * 10 * n <= share * target_ms
                      /\ share * target_ms < (x + 1) * 10 * n
        IN  /\ Clamped(ret.display, 7, 1000, 3000)
            /\ Clamped(ret.typing, 3, 400, 1000)

\* C18 witness: the default range over 50 messages, where both values are
\* raised to their lower clamps.
C18_Witness ==
    /\ fn = "_calculate_durations"
    /\ arg.num_messages = 50
    /\ arg.min_duration = 30 /\ arg.max_duration = 59
    /\ ret = [display |-> 1000, typing |-> 400]

\* C19: for n >= 1 messages, display D ms and typing T ms,
\* calculate_sfx_timestamps returns a non-decreasing list whose entry for
\* message i >= 1 is i * (D + T), preceded by the entry 0 for message 0
\* exactly when skip_first is false; its length is n - 1 when skip_first is
\* true and n when it is false.
C19_SfxTimestamps ==
    fn = "calculate_sfx_timestamps" =>
        LET n == arg.num_messages
            D == arg.message_duration_ms
            T == arg.typing_duration_ms
            first == IF arg.skip_first THEN 0 ELSE 1
        IN  /\ Len(ret) = n - 1 + first
            /\ \A k \in 1 .. Len(ret) - 1 : ret[k] <= ret[k + 1]
            /\ \A m \in 1 .. n - 1 : ret[m + first] = m * (D + T)
            /\ ~arg.skip_first => ret[1] = 0

\* C19 witness: n = 3, D = 1500, T = 800, skip_first gives [2300, 4600].
C19_Witness ==
    /\ fn = "calculate_sfx_timestamps"
    /\ arg.num_messages = 3
    /\ arg.message_duration_ms = 1500 /\ arg.typing_duration_ms = 800
    /\ arg.skip_first
    /\ ret = <<2300, 4600>>

\* The statuses from RENDERING_FRAMES on, FAILED apart.
RenderingOrLater ==
    {RENDERING_FRAMES, MIXING_AUDIO, COMPOSING_VIDEO, UPLOADING, COMPLETED}

\* C16: whenever a job's status is RENDERING_FRAMES or a later non-FAILED
\* status, its story has at least one message: a story with an empty
\* message list never lets the job enter the rendering stage.
C16_RenderingNeedsMessages ==
    \A k \in DOMAIN store :
        StatusOf(k) \in RenderingOrLater =>
            /\ store[k].story # NoStory
            /\ Len(store[k].story.messages) >= 1

\* C17: the display and typing durations run_job uses, once it has set
\* them for a job with messages, are the pair the timing calculator gives
\* for the job's message count and the configured target range.
C17_DurationsFromCalculator ==
    (pc \in {"update_composing", "compose"}
        /\ Len(job.story.messages) >= 1) =>
        LET pair == calculate_durations(Len(job.story.messages),
                        config.duration_min, config.duration_max)
        IN  /\ message_duration = pair.display
            /\ typing_duration = pair.typing

RECURSIVE SumTo(_, _)
\* The sum of the first k entries of a list of durations.
SumTo(durations, k) ==
    IF k = 0 THEN 0 ELSE SumTo(durations, k - 1) + durations[k]

\* The position, in the frame list, of the frame that first shows message
\* m (counted from 0).
FrameOfMessage(m) ==
    CHOOSE k \in 1 .. Len(frame_paths) :
        frame_paths[k].suffix = "" /\ frame_paths[k].visible_count = m + 1

\* C20: once the video is composed, the cue of message m >= 1 is the sum of
\* the durations of the clips before that message's frame, and lies before
\* the end of the video; with typing frames and without them.
C20_CueWhenMessageAppears ==
    (pc = "thumbnail" /\ sfx_timestamps # <<>>) =>
        \A m \in 1 .. Len(sfx_timestamps) :
            /\ sfx_timestamps[m] = SumTo(clips, FrameOfMessage(m) - 1)
            /\ sfx_timestamps[m] < SumTo(clips, Len(clips))

\* The files of the store that load.
Readable == {k \in DOMAIN store : loads(store[k])}

\* The files that load as a job of the status asked for, all when None.
Matching(st) == {k \in Readable : st = None \/ StatusOf(k) = st}

\* C11: list_jobs(status) returns the readable records whose status equals
\* the filter (all readable records when there is no filter), each once and
\* as from_dict gives it, ordered by creation time descending; it returns
\* the empty list when the store does not exist.
C11_ListJobs ==
    cmd = "list_jobs" =>
        /\ ~jobs_dir_exists => results = <<>>
        /\ Len(results) = Cardinality(Matching(status_filter))
        /\ \A k \in Matching(status_filter) :
              Cardinality({x \in 1 .. Len(results) :
                              results[x] = Loaded(k)}) = 1
        /\ \A x \in 1 .. Len(results) :
              \E k \in Matching(status_filter) : results[x] = Loaded(k)
        /\ \A x \in 1 .. Len(results), y \in 1 .. Len(results) :
              x < y => results[x].created_at >= results[y].created_at

\* C11 witness: a listing of the failed jobs alone, two of three readable
\* records, the later created first.
C11_Witness ==
    /\ cmd = "list_jobs"
    /\ status_filter = FAILED
    /\ Cardinality(Readable) = 3
    /\ Len(results) = 2
    /\ results[1].created_at > results[2].created_at

\* C12: a record that cannot be read or deserialized, one whose status
\* string is none of the enum's values included, is skipped by list_jobs
\* and by retry_failed_jobs: the operation does not raise and still
\* returns every other matching record.
C12_UnreadableSkipped ==
    (Readable # DOMAIN store) =>
        /\ cmd = "list_jobs" =>
              /\ raised = None
              /\ \A k \in Matching(status_filter) :
                    \E x \in 1 .. Len(results) : results[x] = Loaded(k)
              /\ \A x \in 1 .. Len(results) : results[x].id # ForeignId
        /\ cmd = "retry_failed_jobs" =>
              /\ raised = None
              /\ \A k \in Matching(FAILED) :
                    \E x \in 1 .. Len(failed_jobs) :
                        failed_jobs[x] = Loaded(k)
              /\ \A x \in 1 .. Len(failed_jobs) :
                    failed_jobs[x].id # ForeignId

\* C12 witness: a file whose status is none of the enum's values lies in
\* the store, and retry_failed_jobs found the two failed jobs beside it.
C12_Witness ==
    /\ cmd = "retry_failed_jobs"
    /\ ForeignId \in DOMAIN store
    /\ "status" \in DOMAIN store[ForeignId]
    /\ ~IsJobStatusValue(store[ForeignId].status)
    /\ Len(failed_jobs) = 2

\* C14: every job create_job makes has an identifier different from that
\* of every job already in the store, so no record is overwritten and the
\* store holds one record per job created.
C14_IdentifiersUnique ==
    /\ \A a \in 1 .. Len(created), b \in 1 .. Len(created) :
          a # b => created[a].id # created[b].id
    /\ Cardinality(DOMAIN store \ {ForeignId}) = Len(created)

\* C15: no operation removes a job's record from the store, and a job's
\* identifier and creation time never change after its creation: every job
\* create_job has made has its record, under its identifier and with its
\* creation time; list_jobs changes nothing.
C15_RecordsKept ==
    \A a \in 1 .. Len(created) :
        /\ created[a].id \in DOMAIN store
        /\ store[created[a].id].id = created[a].id
        /\ store[created[a].id].created_at = created[a].created_at

\* The number of frames of a list that show a typing indicator.
TypingFrames(paths) ==
    Cardinality({k \in 1 .. Len(paths) : paths[k].suffix = "_typing"})

\* C21: compose_from_frames gives each frame the typing duration if its
\* file name is tagged typing and the display duration otherwise, in list
\* order, and the video lasts the sum of these durations: for n messages
\* n * display + (n - 1) * typing with typing frames, n * display without.
C21_VideoIsSumOfClips ==
    fn = "compose_from_frames" =>
        LET paths == arg.frame_paths
            D == arg.message_duration
            T == arg.typing_duration
            n == Len(paths) - TypingFrames(paths)
        IN  /\ Len(ret.clips) = Len(paths)
            /\ \A k \in 1 .. Len(paths) :
                  ret.clips[k] = IF paths[k].suffix = "_typing" THEN T ELSE D
            /\ ret.video = SumTo(ret.clips, Len(ret.clips))
            /\ ret.written = ret.video
            /\ TypingFrames(paths) > 0 => ret.video = n * D + (n - 1) * T
            /\ (TypingFrames(paths) = 0) => ret.video = n * D

\* C21 witness: three messages with typing frames at the default
\* durations: 3 * 1500 + 2 * 800 ms.
C21_Witness ==
    /\ fn = "compose_from_frames"
    /\ Len(arg.frame_paths) = 5
    /\ ret.clips = <<1500, 800, 1500, 800, 1500>>
    /\ ret.video = 6100

\* C22: the audio is fitted to the video, never the reverse: an audio
\* shorter than the video is repeated floor(video / audio) + 1 times, which
\* covers the video; it is then trimmed to the video's duration; the video
\* lasts the same with and without audio.
C22_AudioFittedToVideo ==
    (fn = "compose_from_frames" /\ arg.audio.exists) =>
        /\ arg.audio.length < ret.video =>
              /\ ret.looped =
                    arg.audio.length
                        * ((ret.video \div arg.audio.length) + 1)
              /\ ret.looped >= ret.video
        /\ ret.audio = ret.video
        /\ ret.written =
              compose_from_frames(arg.frame_paths, NoAudio,
                  arg.message_duration, arg.typing_duration).written

\* C22 witness: an audio of 1500 ms under a video of 6100 ms is repeated 5
\* times and cut to 6100 ms.
C22_Witness ==
    /\ fn = "compose_from_frames"
    /\ arg.audio = AudioFile(1500)
    /\ ret.video = 6100
    /\ ret.looped = 7500
    /\ ret.audio = 6100

\* No music at all: no path given and an empty library.
NoMusicAtAll == arg.music_path = None /\ ~arg.assets.library

\* The notification sounds are mixed in: timestamps are given, the setting
\* is on and a notification sound exists.
SoundsMixedIn ==
    /\ arg.sfx_timestamps_ms # <<>>
    /\ arg.notification_sound
    /\ arg.assets.notification

\* C23 as claimed: with no music at all, mix_for_video does not raise and
\* returns a fully silent track of the requested duration, whether or not
\* timestamps are supplied and a notification sound exists.
C23_SilentWithoutMusic ==
    (fn = "mix_for_video" /\ NoMusicAtAll) =>
        /\ ret.raised = None
        /\ ret.mixed.length = arg.duration_ms
        /\ ~ret.mixed.music
        /\ ret.mixed.sfx = <<>>

\* C23 as amended: with no music at all, mix_for_video does not raise and
\* returns a track of the requested duration without music; the track is
\* silent unless timestamps are supplied, the setting is on and a
\* notification sound exists, and then it holds that sound at each
\* timestamp before its end and nothing else.
C23_NoMusicNoFailure ==
    (fn = "mix_for_video" /\ NoMusicAtAll) =>
        /\ ret.raised = None
        /\ ret.mixed.length = arg.duration_ms
        /\ ~ret.mixed.music
        /\ ~SoundsMixedIn => ret.mixed.sfx = <<>>
        /\ SoundsMixedIn =>
              /\ \A k \in 1 .. Len(ret.mixed.sfx) :
                    /\ ret.mixed.sfx[k] < arg.duration_ms
                    /\ \E y \in 1 .. Len(arg.sfx_timestamps_ms) :
                          arg.sfx_timestamps_ms[y] = ret.mixed.sfx[k]
              /\ \A k \in 1 .. Len(arg.sfx_timestamps_ms) :
                    arg.sfx_timestamps_ms[k] < arg.duration_ms =>
                        \E x \in 1 .. Len(ret.mixed.sfx) :
                            ret.mixed.sfx[x] = arg.sfx_timestamps_ms[k]

\* C23 witness: no music, two timestamps, a notification sound: the track
\* of 4600 ms holds the sound at 2300 ms alone.
C23_Witness ==
    /\ fn = "mix_for_video"
    /\ NoMusicAtAll
    /\ arg.duration_ms = 4600
    /\ arg.sfx_timestamps_ms = <<2300, 4600>>
    /\ ret.raised = None
    /\ ret.mixed = Segment(4600, FALSE, <<2300>>)

\* run_job was given no music path and the library is empty.  (Mix leaves
\* music_path None in that case.)
NoMusicRun == cmd = "run" /\ music_path = None /\ ~assets.library

\* Every stage of the current run_job was called, and every one but the
\* audio stage returned normally.
OtherStagesSucceeded ==
    /\ Len(calls) = Len(StagesToRun)
    /\ \A k \in 1 .. Len(calls) : calls[k].stage # "mix" => calls[k].ok

\* C24: a job run with no music path and an empty library still passes
\* through MIXING_AUDIO and COMPOSING_VIDEO and reaches COMPLETED with a
\* video path whenever its other stages succeed; its audio stage returns
\* and the job is never FAILED with the audio stage's error.
C24_NoMusicStillCompletes ==
    /\ [](NoMusicRun /\ InRunJob =>
            /\ (OtherStagesSucceeded /\ pc \notin {"upload_branch", "complete"})
                   => /\ MIXING_AUDIO \in Range(hist)
                      /\ COMPOSING_VIDEO \in Range(hist)
                      /\ COMPLETED \in Range(hist)
                      /\ job.video_path # None
            /\ pc = "return" => job.status = COMPLETED
            /\ job.status = FAILED =>
                   job.error \notin {ErrorMessage["mix"], AudioNotFound})
    /\ [][(pc = "mix" /\ NoMusicRun) =>
              /\ pc' = "update_composing"
              /\ calls' = Append(calls, Call("mix", TRUE))
              /\ audio_path' = None]_vars

\* C24 witness: a job run without any music has returned COMPLETED with
\* its video, every stage called.
C24_Witness ==
    /\ NoMusicRun
    /\ pc = "return"
    /\ EveryStageSucceeded
    /\ job.status = COMPLETED
    /\ job.video_path = "video.mp4"
    /\ MIXING_AUDIO \in Range(hist)
    /\ Record.status = value[COMPLETED]

\* C25 as claimed: no absent audio asset makes the audio stage raise or a
\* job FAILED: no exception and no record carries the error of a missing
\* audio file.
C25_AbsentAssetNeverFails ==
    /\ exc # AudioNotFound
    /\ raised # AudioNotFound
    /\ \A k \in DOMAIN store : store[k].error # AudioNotFound

\* C27: when run_job has returned, the job's frames directory and audio
\* file are gone; when it has raised because a stage failed, the frames
\* directory (if the rendering had returned) and the audio file (if a mix
\* had been made) are still there.
C27_TempArtifacts ==
    /\ pc = "return" =>
          /\ Temp("frames", job.id) \notin tmp
          /\ Temp("audio", job.id) \notin tmp
    /\ (pc = "raise" /\ SomeStageRaised) =>
          /\ Call("render", TRUE) \in Range(calls) =>
                Temp("frames", job.id) \in tmp
          /\ (Call("mix", TRUE) \in Range(calls) /\ music_path # None) =>
                Temp("audio", job.id) \in tmp

\* C27 witness: the first job failed in composing and left its frames and
\* its audio; the second, run with music, has returned and left nothing.
C27_Witness ==
    /\ pc = "return"
    /\ job.id = 2
    /\ music_path # None
    /\ Call("mix", TRUE) \in Range(calls)
    /\ store[1].status = value[FAILED]
    /\ store[1].error = ErrorMessage["compose"]
    /\ tmp = {Temp("frames", 1), Temp("audio", 1)}

\* The publisher was called for the current job, created by this operation,
\* and returned no id without raising.
PublisherReturnedNone ==
    /\ cmd \in {"run", "batch"}
    /\ InRunJob
    /\ upload
    /\ Call("upload", TRUE) \in Range(calls)
    /\ \A p \in published : p.job # job.id

\* C28 as claimed: when the publisher returns no id without raising, the
\* job reaches COMPLETED with a video path, no published id and no error,
\* and run_job returns; a record has a published id only if the publisher
\* returned it for that job.
C28_NullIdStillCompletes ==
    /\ PublisherReturnedNone =>
          /\ pc \in {"complete", "cleanup", "return"}
          /\ pc # "complete" =>
                /\ Record.status = value[COMPLETED]
                /\ Record.video_path # None
                /\ Record.youtube_id = None
                /\ Record.error = None
    /\ \A k \in DOMAIN store :
          store[k].youtube_id # None =>
              Published(k, store[k].youtube_id) \in published

\* a < b for strings, as Python compares them: by the first character that
\* differs, a proper prefix being the smaller.
LexLess(a, b) ==
    \E k \in 1 .. Min(Len(a), Len(b)) + 1 :
        /\ \A x \in 1 .. k - 1 : a[x] = b[x]
        /\ IF k > Len(a) THEN k <= Len(b)
           ELSE k <= Len(b) /\ a[k] < b[k]

\* sorted(names) == names, for names that are distinct
SortedNames(names) ==
    \A k \in 1 .. Len(names) - 1 : LexLess(names[k], names[k + 1])

\* The frames a story of n messages is to give, by position: with typing
\* frames, message m is at 2m - 1 and the typing frame before it at
\* 2m - 2; without, message m is at m.
ExpectedFrames(n, include_typing) ==
    IF include_typing
      THEN [j \in 1 .. 2 * n - 1 |->
              IF j % 2 = 1
                THEN [typing |-> FALSE, visible_count |-> (j + 1) \div 2]
                ELSE [typing |-> TRUE, visible_count |-> j \div 2]]
      ELSE [j \in 1 .. n |-> [typing |-> FALSE, visible_count |-> j]]

\* C26 as claimed: for a story of n >= 1 messages render_all_frames returns
\* the message frames showing 1..n messages in order, with (when
\* include_typing) one typing frame right before the frame of each message
\* after the first, showing the previous count; 2n-1 frames with typing and
\* n without; the file names are distinct, hold 'typing' exactly for the
\* typing frames, and are in lexicographic order.
C26_FramesInOrder ==
    (fn = "render_all_frames" /\ Len(arg.story.messages) >= 1) =>
        LET n == Len(arg.story.messages)
            expected == ExpectedFrames(n, arg.include_typing)
            names == [j \in 1 .. Len(ret) |-> basename(ret[j])]
        IN  /\ Len(ret) = IF arg.include_typing THEN 2 * n - 1 ELSE n
            /\ \A j \in 1 .. Len(ret) :
                  /\ ret[j].visible_count = expected[j].visible_count
                  /\ Contains(names[j], TypingWord) = expected[j].typing
            /\ Cardinality(Range(names)) = Len(names)
            /\ SortedNames(names)

\* _resumable_upload has ended, by return or by raise.
UploadEnded == fn = "_resumable_upload"

\* C29: the upload loop ends; it returns the response once the upload has
\* finished; it returns null, raising nothing, as soon as the transient
\* errors caught exceed MAX_RETRIES in total; before retry number n it
\* sleeps at most 2^n seconds; a non-retriable HTTP error is re-raised
\* from the chunk call at once, with no retry and no sleep.
C29_UploadLoopTerminates ==
    /\ <>UploadEnded
    /\ [](UploadEnded =>
            \/ /\ ret = Returned("response")
               /\ chunks = 0
               /\ transient_errors <= MAX_RETRIES
            \/ /\ ret = Returned(None)
               /\ chunks > 0
               /\ transient_errors = MAX_RETRIES + 1
            \/ /\ ret.raised = "HttpError"
               /\ ret.status \notin RETRIABLE_STATUS_CODES
               /\ transient_errors <= MAX_RETRIES)
    /\ [](pc \in {"while", "next_chunk"} => transient_errors <= MAX_RETRIES)
    /\ [][(pc = "if_error" /\ error # None /\ pc' = "while") =>
              /\ retry' = transient_errors
              /\ sleep_seconds' <= 1000 * 2 ^ retry']_vars
    /\ [][(~UploadEnded /\ UploadEnded' /\ ret'.raised = "HttpError") =>
              /\ pc = "next_chunk"
              /\ retry' = retry
              /\ sleep_seconds' = sleep_seconds
              /\ transient_errors' = transient_errors]_vars

\* C29 witness: the eleventh transient error has ended an upload of three
\* chunks, one of them sent, with null; the last sleep, before retry 10,
\* was of 999 thousandths of 2^10 seconds.
C29_Witness ==
    /\ UploadEnded
    /\ ret = Returned(None)
    /\ retry = MAX_RETRIES + 1
    /\ transient_errors = MAX_RETRIES + 1
    /\ chunks = 2
    /\ sleep_seconds = 999 * 1024

\* The last cycle's pipeline run raised, and no cycle has begun since.
CycleRaised == spc \notin {"none", "in_run_once"} /\ raised # None

\* C30: in every mode, the exception of a cycle's pipeline run does not
\* stop the scheduler: run_once returns False and the loop goes on; the
\* loop ends only with the running flag down; and while the flag is up the
\* next cycle is scheduled and started (as long as the store has room for
\* its job).
C30_SchedulerSurvivesFailure ==
    /\ [](spc # "crashed")
    /\ [](spc = "stopped" => ~running)
    /\ [](CycleRaised => returned = <<FALSE>>)
    /\ [][(spc = "in_run_once" /\ spc' # "in_run_once" /\ raised # None) =>
              /\ returned' = <<FALSE>>
              /\ spc' = IF mode = "interval" THEN "if_not_running"
                                             ELSE "while"]_vars
    /\ (CycleRaised /\ running) ~>
           (spc = "in_run_once" \/ ~running \/ Len(store) >= MaxJobs)

\* C30 witness: the first cycle's run raised, run_once returned False, and
\* the daily scheduler, still running, has started the next cycle.
C30_Witness ==
    /\ mode = "daily"
    /\ running
    /\ spc = "in_run_once"
    /\ pc = "create"
    /\ Len(store) = 1
    /\ store[1].status = value[FAILED]
    /\ returned = <<FALSE>>

\* The except clause of the current run_job has persisted FAILED.
FailurePersisted == InRunJob /\ pc = "raise"

\* run_job's call of a stage returned normally in the current attempt.
Completed(stage) == Call(stage, TRUE) \in Range(calls)

\* C34: when a stage (or the cleanup) raises, the FAILED record persisted
\* for the job holds what the stages completed before had produced: the
\* story if generation completed, the video path if composition completed
\* and the thumbnail path if the thumbnail was created, with the message of
\* the exception: so when the publisher raises after the video was made.
C34_FailedRecordKeepsArtifacts ==
    FailurePersisted =>
        /\ Record = to_dict(job)
        /\ Record.status = value[FAILED]
        /\ Record.error = exc
        /\ Completed("generate") =>
              /\ Record.story # NoStory
              /\ story_from_dict(Record.story) = job.story
        /\ Completed("compose") => Record.video_path = "video.mp4"
        /\ Completed("thumbnail") => Record.thumbnail_path = "thumbnail.png"
        /\ (Len(calls) = 6 /\ ~calls[6].ok) =>
              /\ Record.story # NoStory
              /\ Record.video_path # None
              /\ Record.thumbnail_path # None
              /\ Record.youtube_id = job.youtube_id

\* C34 witness: the publisher raised on a job created by run, after story,
\* video and thumbnail were produced, and the FAILED record holds the three.
C34_Witness ==
    /\ cmd = "run"
    /\ FailurePersisted
    /\ calls[Len(calls)] = Call("upload", FALSE)
    /\ Record.status = value[FAILED]
    /\ Record.error = ErrorMessage["upload"]
    /\ Record.story = story_to_dict(GeneratedStory(1))
    /\ Record.video_path = "video.mp4"
    /\ Record.thumbnail_path = "thumbnail.png"
    /\ Record.youtube_id = None

\* C36: in every record of the store, whatever runs and retries wrote it,
\* the error is non-null exactly when the status is FAILED.
C36_ErrorIffFailed ==
    \A k \in DOMAIN store :
        (store[k].error # None) <=> (store[k].status = value[FAILED])

\* C36 witness: a retry is re-running a job whose record, FAILED with an
\* error before, now shows GENERATING_STORY and no error, while the record
\* of another failed job still waits with its error.
C36_Witness ==
    /\ cmd = "retry"
    /\ pc = "generate"
    /\ job.id \in failedAtStart
    /\ Record.status = value[GENERATING_STORY]
    /\ Record.error = None
    /\ \E k \in DOMAIN store :
          /\ k # job.id
          /\ store[k].status = value[FAILED]
          /\ store[k].error # None

\* The identifiers of the jobs in a list.
Ids(js) == {js[k].id : k \in 1 .. Len(js)}

C38_PublishedAtMostOnce ==
    \A p, q \in published : p.job = q.job => p.video_id = q.video_id

\* C39 as claimed: once the re-run of a retried job has persisted
\* GENERATING_STORY, the story, video path, thumbnail path and completion
\* timestamp of its record are null or were produced by the current
\* attempt, also when the re-run fails again.
C39_NoStaleArtifacts ==
    (cmd = "retry" /\ InRunJob /\ hist # <<>>) =>
        /\ Record.story # NoStory => Completed("generate")
        /\ Record.video_path # None => Completed("compose")
        /\ Record.thumbnail_path # None => Completed("thumbnail")
        /\ Record.completed_at # None => COMPLETED \in Range(hist)

\* C35 as claimed: every delay run_daily chooses before the next video is
\* at least 60 and at most 3600 seconds, at every time of day before 23:00
\* and for every number of videos remaining.
C35_DelayWithinBounds ==
    fn = "daily_delay" => (60 * 1000 <= ret /\ ret <= 3600 * 1000)

\* C32 as claimed: in daily mode with count N the scheduler starts at most
\* N pipeline jobs between one midnight and the next, whatever becomes of
\* the jobs.
C32_AtMostNPerDay == mode = "daily" => started_today <= videos_per_day

\* C40 as claimed: in daily mode, while the running flag is up, the loop
\* comes back to its head only from a sleep or from a job: so between 23:00
\* and midnight with videos still to upload.
C40_DailyIterationBlocks ==
    [][(mode = "daily" /\ running /\ spc # "while" /\ spc' = "while") =>
          spc \in {"sleep_then_loop", "in_run_once"}]_vars

\* The moments a job can be scheduled for at time t of today: the
\* configured times later than t today, and all of them tomorrow.
Occurrences(t, ts) ==
    {Moment(0, x) : x \in {y \in Range(ts) : y > t}}
        \cup {Moment(1, x) : x \in Range(ts)}

\* The earliest of them.
Earliest(t, ts) ==
    CHOOSE m \in Occurrences(t, ts) :
        \A o \in Occurrences(t, ts) : ~Later(m, o)

\* C33: in fixed-times mode a job is started only when the clock has
\* reached the time it was waiting for; the time chosen at the head of the
\* loop is the earliest configured time later than now today, or the
\* earliest configured time tomorrow when none is left today; and it is
\* later than the time the job before was started for, so that no
\* occurrence starts two jobs.
C33_FixedTimes ==
    /\ [](mode = "times" /\ spc = "run_once" => Reached(next_time))
    /\ [][(mode = "times" /\ spc # "in_run_once" /\ spc' = "in_run_once") =>
              /\ Reached(next_time)
              /\ started_for' = next_time]_vars
    /\ [][(mode = "times" /\ spc = "while" /\ spc' = "sleep_then_run") =>
              /\ next_time' = Earliest(tick, scheduled_times)
              /\ Later(next_time', Moment(0, tick))
              /\ started_for # <<>> => Later(next_time', started_for)]_vars

\* C33 witness: with one time a day, the first job was started at that
\* time yesterday, the loop chose the same time of the next day, and the
\* second job was started when the clock reached it.
C33_Witness ==
    /\ mode = "times"
    /\ scheduled_times = <<1>>
    /\ spc = "in_run_once"
    /\ pc = "create"
    /\ Len(store) = 1
    /\ tick = 1
    /\ started_for = Moment(0, 1)
    /\ started_today = 1

\* A job is started: run_once calls pipeline.run.
JobStarts == spc # "in_run_once" /\ spc' = "in_run_once"

\* What holds of a shutdown in every mode besides the starting of jobs:
\* the signal only lowers the flag, and the flag stays down; the job in
\* progress goes on to its end, COMPLETED or FAILED in its record; no call
\* of time.sleep is begun with the flag down; and the loop reaches
\* "Scheduler stopped" (as long as the store has room for the job of a
\* run_once already called).
ShutdownIsGraceful ==
    /\ [][~running => ~running']_vars
    /\ [][(running /\ ~running') =>
              UNCHANGED <<spc, pc, job, store, calls, hist, sleep_left>>]_vars
    /\ [][~running => sleep_left' = sleep_left]_vars
    /\ [](spc = "in_run_once" /\ pc = "done" =>
              /\ Len(store) = base + 1
              /\ StatusOf(Len(store)) \in {COMPLETED, FAILED})
    /\ (~running /\ spc = "in_run_once") ~> (spc = "stopped")
    /\ ~running ~>
          (spc = "stopped" \/ (spc = "run_once" /\ Len(store) >= MaxJobs))

\* C31 as claimed: in every mode, once the signal has lowered the running
\* flag no job is started, the job in progress runs to its COMPLETED or
\* FAILED end, and the loop then stops after at most that job and one
\* sleep slice.
C31_NoJobAfterShutdown ==
    /\ [][~running => ~JobStarts]_vars
    /\ ShutdownIsGraceful

\* C31, amended: with the flag down no test of the flag lets the loop
\* through to run_once, so that a job is started after the signal only by
\* the iteration that had passed its test before it; the rest as claimed.
C31_NoJobAfterNextTest ==
    /\ [][(~running /\ spc # "run_once") => spc' # "run_once"]_vars
    /\ [][(~running /\ JobStarts) => spc = "run_once"]_vars
    /\ [][(~running /\ spc = "in_run_once" /\ spc' # "in_run_once") =>
              spc' \in {"while", "if_not_running"}]_vars
    /\ ShutdownIsGraceful

\* C31 witness: at fixed times, the signal came while the first job was in
\* progress (no later time was chosen after it); the job went on to
\* COMPLETED and the scheduler stopped.
C31_Witness ==
    /\ mode = "times"
    /\ spc = "stopped"
    /\ ~running
    /\ Len(store) = 1
    /\ StatusOf(1) = COMPLETED
    /\ started_for # <<>>
    /\ next_time = started_for
    /\ returned = <<TRUE>>

====
